---- MODULE Spec2Model ----
(***************************************************************************)
(* A model of lestrrat/go-circuit-breaker: the breaker state machine       *)
(* (breaker/breaker.go), its rolling window (breaker/internal/window) and  *)
(* its tripper policies (breaker/tripper.go).                              *)
(*                                                                         *)
(* Time is counted in ticks; Second ticks make one second.  The breaker    *)
(* keeps lastFailure in whole seconds (time.Time.Unix()), the clock and    *)
(* every duration are in ticks.                                            *)
(*                                                                         *)
(* Every process runs one operation of the Breaker interface at a time.    *)
(* An operation is cut into its atomic steps: one step per                 *)
(* sync/atomic access and one step per mutex-protected section.  The       *)
(* clock read that precedes an atomic store is taken in the same step.     *)
(***************************************************************************)
EXTENDS Integers, Sequences, FiniteSets, TLC

\* ---------------------------------------------------------------- bounds
NumProcs == 2
MaxTime == 3
MaxSamples == 2
MaxConsec == 2
\* the clock and the samples of one caller at a time
MaxTimeSeq == 5
MaxSamplesSeq == 3
\* operations still running after their Call timed out
MaxLate == 1
\* the clock of a breaker that is only called, with no tripper
MaxTimeWin == 8
\* the depth of an error value and the iterations of a predicate's loop
MaxDepth == 3
MaxIter == 5
\* the subscriptions of an eventEmitter
NumSubs == 2
\* the listeners added to a breaker, the capacity of a listener's channel,
\* the capacity of the output channel of Subscribe (100 in the source), and
\* the events one breaker publishes
NumListeners == 2
ListenerCap == 1
OutputCap == 1
MaxPub == 3

Procs == 1..NumProcs
Subs == 1..NumSubs
Chans == 1..NumListeners

\* ------------------------------------------------------------- constants
\* ticks per second: lastFailure is stored as now.Unix()
Second == 3
\* backoff.Stop
Stop == 0 - 1
\* the window configuration (WithWindowTime / WithWindowBuckets)
WindowBuckets == 2
BucketTime == 2

\* ------------------------------------------------------------- variables
VARIABLES
    now,             \* the Clock
    tripped,         \* breaker.tripped
    broken,          \* breaker.broken
    halfOpens,       \* breaker.halfOpens, the trial gate
    consecFailures,  \* breaker.consecFailures
    lastFailure,     \* breaker.lastFailure, in seconds
    nextBackOff,     \* breaker.nextBackOff, in ticks or Stop
    backoff,         \* breaker.backoff: [sched, pos]
    tripper,         \* breaker.tripper
    counts,          \* breaker.counts: [buckets, cur, lastAccess]
    pc,              \* position of each process
    op,              \* the operation each process runs
    st,              \* the State each process observed
    err,             \* the error of each process's Call
    since,           \* the local `since` of State()
    lastFrac,        \* history: ticks dropped by the last now.Unix()
    tripFresh,       \* history: Trip() returned, only Ready() calls since
    breakHeld,       \* history: Break() returned, no Reset() invoked since
    race,            \* history: Ready() calls racing at one clock instant
    timing,          \* one caller at a time: tripFresh and tally are kept
    late,            \* helper goroutines of Calls whose alarm won that
                     \* have not ended, or NotFollowed
    tally,           \* history: the samples since the breaker was fresh
    pred,            \* the locals of IsOpen() and IsTimeout()
    via,             \* each process: its operation goes through the
                     \* eventEmitter, and the events it has handed to emitEvent
    em,              \* the eventEmitter: the Emit task, its context, the
                     \* event it holds, the subscribers map
    sub,             \* each EventSubscription: its reader, its context
    ls,              \* the listeners and event receivers kept by the breaker
                     \* itself, their channels and goroutines
    web              \* the http.Client decorator: its option, the request
                     \* in hand, the call to the underlying client, the
                     \* result returned

fields == <<tripped, broken, halfOpens, consecFailures, lastFailure,
            nextBackOff, backoff, counts>>
config == <<tripper, timing, web>>
locals == <<pc, op, st, err, since>>
history == <<lastFrac, tripFresh, breakHeld, race>>
events == <<via, em, sub, ls>>
aside == <<late, tally, pred, via, em, sub, ls>>
vars == <<now, tripped, broken, halfOpens, consecFailures, lastFailure,
          nextBackOff, backoff, tripper, counts, pc, op, st, err, since,
          lastFrac, tripFresh, breakHeld, race, timing, late, tally, pred,
          via, em, sub, ls, web>>

\* ---------------------------------------------------------------- window
Bucket0 == [failure |-> 0, success |-> 0]

New_window(t) ==
    [buckets |-> [i \in 0..(WindowBuckets - 1) |-> Bucket0],
     cur |-> 0, lastAccess |-> t]

RECURSIVE SumBuckets(_, _, _)
SumBuckets(bs, i, f) ==
    IF i >= WindowBuckets THEN 0
    ELSE (IF f = "failure" THEN bs[i].failure ELSE bs[i].success)
         + SumBuckets(bs, i + 1, f)

Window_Failures(w) == SumBuckets(w.buckets, 0, "failure")
Window_Successes(w) == SumBuckets(w.buckets, 0, "success")

\* the loop of getLatestBucket after i iterations
RECURSIVE advance(_, _, _, _)
advance(bs, cur, elapsed, i) ==
    IF i >= WindowBuckets THEN [buckets |-> bs, cur |-> cur]
    ELSE LET c2 == (cur + 1) % WindowBuckets
             bs2 == [bs EXCEPT ![c2] = Bucket0]
             e2 == elapsed - BucketTime
         IN  IF e2 < BucketTime THEN [buckets |-> bs2, cur |-> c2]
             ELSE advance(bs2, c2, e2, i + 1)

getLatestBucket(w, t) ==
    LET elapsed == t - w.lastAccess
    IN  IF elapsed > BucketTime
        THEN LET r == advance(w.buckets, w.cur, elapsed, 0)
             IN  [buckets |-> r.buckets, cur |-> r.cur, lastAccess |-> t]
        ELSE w

Window_Fail(w, t) ==
    LET w2 == getLatestBucket(w, t)
    IN  [w2 EXCEPT !.buckets[w2.cur].failure = @ + 1]

Window_Success(w, t) ==
    LET w2 == getLatestBucket(w, t)
    IN  [w2 EXCEPT !.buckets[w2.cur].success = @ + 1]

Window_Reset(w) ==
    [w EXCEPT !.buckets = [i \in 0..(WindowBuckets - 1) |-> Bucket0]]

\* ErrorRate without the test for an empty window: 0 / 0
ErrorRate_noGuard(w) ==
    LET f == Window_Failures(w)
        total == f + Window_Successes(w)
    IN  <<f, total>>

\* ErrorRate(): the float64 failures / total as the fraction <<failures,
\* total>>, and 0.0 as <<0, 1>> when there is no sample
ErrorRate(w) ==
    LET f == Window_Failures(w)
        total == f + Window_Successes(w)
    IN  IF total = 0 THEN <<0, 1>> ELSE <<f, total>>

\* ErrorRateAtLeast with a strict comparison: a rate equal to the threshold
\* does not count
ErrorRateAtLeast_strict(w, num, den) ==
    LET f == Window_Failures(w)
        total == f + Window_Successes(w)
    IN  IF total = 0 THEN num < 0 ELSE f * den > num * total

\* ErrorRate() >= num/den, in integers; 0.0 when there is no sample
ErrorRateAtLeast(w, num, den) ==
    LET f == Window_Failures(w)
        total == f + Window_Successes(w)
    IN  IF total = 0 THEN num <= 0 ELSE f * den >= num * total

\* --------------------------------------------------------------- backoff
\* A BackOff is a schedule of intervals; the last one repeats.
BackOff_Next(b) ==
    IF b.pos < Len(b.sched) THEN [b EXCEPT !.pos = @ + 1] ELSE b

BackOff_Value(b) == b.sched[b.pos]

BackOff_Reset(b) == [b EXCEPT !.pos = 0]

Policies == {<<1, 2, 4>>, <<1>>, <<1, Stop>>, <<Stop>>}

\* -------------------------------------------------------------- trippers
NilTripper == [kind |-> "Nil", threshold |-> 0, num |-> 0, den |-> 1]
ThresholdTripper(n) ==
    [kind |-> "Threshold", threshold |-> n, num |-> 0, den |-> 1]
ConsecutiveTripper(n) ==
    [kind |-> "Consecutive", threshold |-> n, num |-> 0, den |-> 1]
RateTripper(num, den, minSamples) ==
    [kind |-> "Rate", threshold |-> minSamples, num |-> num, den |-> den]

\* TripFunc_Trip where ThresholdTripper wants more failures than its
\* threshold
TripFunc_Trip_gt(tr, w, consec) ==
    CASE tr.kind = "Nil" -> FALSE
      [] tr.kind = "Threshold" -> Window_Failures(w) > tr.threshold
      [] tr.kind = "Consecutive" -> consec >= tr.threshold
      [] tr.kind = "Rate" ->
            /\ Window_Failures(w) + Window_Successes(w) >= tr.threshold
            /\ ErrorRateAtLeast(w, tr.num, tr.den)

TripFunc_Trip(tr, w, consec) ==
    CASE tr.kind = "Nil" -> FALSE
      [] tr.kind = "Threshold" -> Window_Failures(w) >= tr.threshold
      [] tr.kind = "Consecutive" -> consec >= tr.threshold
      [] tr.kind = "Rate" ->
            /\ Window_Failures(w) + Window_Successes(w) >= tr.threshold
            /\ ErrorRateAtLeast(w, tr.num, tr.den)

Trippers ==
    {NilTripper, ThresholdTripper(1), ThresholdTripper(2),
     ConsecutiveTripper(2), RateTripper(1, 2, 2)}

\* ----------------------------------------------------------------- tally
\* What was recorded since the breaker was fresh (New() or Reset() returned)
\* while nothing but Call() was invoked: the failures, the successes, the
\* failures since the last success, the times of the first and last sample.
NoTally ==
    [ok |-> FALSE, fails |-> 0, succs |-> 0, run |-> 0,
     first |-> 0 - 1, last |-> 0 - 1]

FreshTally == [NoTally EXCEPT !.ok = TRUE]

\* the circuit of a Call admitted with state s ends with e at time t; a
\* successful probe makes the breaker fresh again before it is recorded
Sample(tl, s, e, t) ==
    LET b == IF s = "Halfopen" /\ e = "nil" THEN FreshTally ELSE tl
    IN  IF ~tl.ok THEN tl
        ELSE [ok |-> TRUE,
              fails |-> b.fails + (IF e = "nil" THEN 0 ELSE 1),
              succs |-> b.succs + (IF e = "nil" THEN 1 ELSE 0),
              run |-> IF e = "nil" THEN 0 ELSE b.run + 1,
              first |-> IF b.first < 0 THEN t ELSE b.first,
              last |-> t]

\* ------------------------------------------------------- error predicates
\* An error value is the chain of errors from the outermost to the innermost,
\* nil being the empty chain.  "causer" has a Cause(), the rest of the chain;
\* "open" is breakerOpenErr (it has State()), "timeout" is breakerTimeoutErr
\* (it has IsTimeout()), "plain" has none of the three methods.
\* errors.Wrap(e, msg) puts two causers around e.
ErrKinds == {"causer", "open", "timeout", "plain"}

ErrorValues ==
    {<<>>} \cup
    {c \in UNION {[1..n -> ErrKinds] : n \in 1..MaxDepth} :
        \A i \in 1..(Len(c) - 1) : c[i] = "causer"}

\* the locals of a predicate: its argument, the loop variable err, the
\* number of times the loop body ended without a return, the result
NoPred == [e |-> <<>>, cur |-> <<>>, n |-> 0, v |-> "none"]

PredOps == {"IsOpen", "IsTimeout"}

\* IsOpen(e) or IsTimeout(e) is called
Pred_invoke(p) ==
    /\ pc[p] = "idle"
    /\ \E o \in PredOps, e \in ErrorValues :
          /\ op' = [op EXCEPT ![p] = o]
          /\ pred' = [pred EXCEPT ![p] = [NoPred EXCEPT !.e = e, !.cur = e]]
    /\ pc' = [pc EXCEPT ![p] = "Pred_loop"]
    /\ UNCHANGED <<now, fields, config, late, tally, events, st, err, since,
                   history>>

\* the test of the loop and one pass through its body: for err != nil, the
\* type assertion for the predicate's interface, then the one for causer
Pred_loop(p) ==
    /\ pc[p] = "Pred_loop"
    /\ pred[p].n < MaxIter
    /\ LET c == pred[p].cur
           mine == IF op[p] = "IsOpen" THEN "open" ELSE "timeout"
       IN  IF c = <<>>
           THEN /\ pred' = [pred EXCEPT ![p].v = "false"]
                /\ pc' = [pc EXCEPT ![p] = "ret"]
           ELSE IF Head(c) = mine
           THEN /\ pred' = [pred EXCEPT ![p].v = "true"]
                /\ pc' = [pc EXCEPT ![p] = "ret"]
           ELSE /\ pred' = [pred EXCEPT
                               ![p].cur = IF Head(c) = "causer"
                                          THEN Tail(c) ELSE c,
                               ![p].n = @ + 1]
                /\ UNCHANGED pc
    /\ UNCHANGED <<now, fields, config, late, tally, events, op, st, err,
                   since, history>>

\* the predicate returns to its caller
Pred_return(p) ==
    /\ pc[p] = "ret"
    /\ op[p] \in PredOps
    /\ pc' = [pc EXCEPT ![p] = "idle"]
    /\ op' = [op EXCEPT ![p] = "none"]
    /\ pred' = [pred EXCEPT ![p] = NoPred]
    /\ UNCHANGED <<now, fields, config, late, tally, events, st, err, since,
                   history>>

\* ---------------------------------------------------------------- events
\* TrippedEvent, ResetEvent, FailEvent, ReadyEvent
EventKinds == {"Tripped", "Reset", "Fail", "Ready"}

\* an operation called on the breaker itself; w: the operation was called
\* on the eventEmitter, on: and its deferred emitEvent has not run yet,
\* sent: the events it has handed to emitEvent
Direct == [w |-> FALSE, on |-> FALSE, sent |-> {}]

\* NewEventEmitter(cb): Emit not called yet (task "off"), no subscriber.
\* task: "run" between close(e.emitting) or a fan-out and the select,
\* "select" parked in the select, "have" an event received, "locked" in the
\* loop under RLock with todo the subscribers not visited yet, "done"
\* returned.  ctx: the context of Emit is cancelled.
NewEventEmitter ==
    [task |-> "off", ctx |-> FALSE, ev |-> "none", todo |-> {}, subs |-> {}]

\* a subscription: its reader is "none" before Subscribe, "away" when it
\* does something else, "recv" when parked in <-s.C; ctx: the context given
\* to Subscribe is cancelled; stopped: Stop() has returned; last: the event
\* its reader received last
\* http: no Client made yet
NoWeb ==
    [state |-> "none", errOnBadStatus |-> TRUE, verb |-> "none",
     args |-> <<>>, call |-> <<>>, out |-> <<>>, res |-> <<>>]

NoSub == [pc |-> "none", ctx |-> FALSE, stopped |-> FALSE, last |-> "none"]

\* the locals of sendEvent and of RemoveListener: the event, the listener
\* channel at hand, the length the range loop took, its index
NoLoc == [ev |-> [n |-> 0, after |-> {}], c |-> 0, snap |-> 0, i |-> 0]

\* the goroutine of Subscribe: "none" without a subscription, "run" when it
\* comes to its select, "select" parked in it, "have" with a value v
\* received, "evict" in
\* <-output, "put" in output <- v, "done" returned; ctx: its context is
\* cancelled; out: the output channel
NoReceiver == [pc |-> "none", v |-> 0, ctx |-> FALSE, out |-> <<>>]

\* the breaker that publishes by itself (sendEvent): cb.listeners as its
\* backing array arr and its length len, the channel buf of every listener,
\* the goroutine go behind cb.eventReceivers; history: the number n of
\* events published, the listeners for which RemoveListener returned true
ListenersOf(k, r) ==
    [arr |-> [i \in 1..NumListeners |-> IF i <= k THEN i ELSE 0],
     len |-> k,
     buf |-> [c \in Chans |-> <<>>],
     go |-> IF r THEN [NoReceiver EXCEPT !.pc = "run"] ELSE NoReceiver,
     loc |-> [p \in Procs |-> NoLoc],
     n |-> 0,
     removed |-> {}]

NoListeners == ListenersOf(0, FALSE)

\* ------------------------------------------------------------------ Init
\* late where the circuits that outlive their Call are not followed
NotFollowed == 0 - 1

\* the state New() returns, with every process idle
InitBreaker(policies, trippers, tm, lt) ==
    /\ now = 0
    /\ tripped = 0
    /\ broken = 0
    /\ halfOpens = 0
    /\ consecFailures = 0
    /\ lastFailure = 0
    /\ \E s \in policies :
          /\ backoff = [sched |-> s, pos |-> 1]
          /\ nextBackOff = s[1]
    /\ tripper \in trippers
    /\ counts = New_window(0)
    /\ pc = [p \in Procs |-> "idle"]
    /\ op = [p \in Procs |-> "none"]
    /\ st = [p \in Procs |-> "none"]
    /\ err = [p \in Procs |-> "none"]
    /\ since = [p \in Procs |-> 0]
    /\ lastFrac = 0
    /\ tripFresh = FALSE
    /\ breakHeld = FALSE
    /\ race = [p \in Procs |-> FALSE]
    /\ timing = tm
    /\ late = lt
    /\ tally = IF tm THEN FreshTally ELSE NoTally
    /\ pred = [p \in Procs |-> NoPred]
    /\ via = [p \in Procs |-> Direct]
    /\ em = NewEventEmitter
    /\ sub = [s \in Subs |-> NoSub]
    /\ web = NoWeb

InitWith(policies, trippers, tm, lt) ==
    /\ InitBreaker(policies, trippers, tm, lt)
    /\ ls = NoListeners

\* concurrent callers: an exponential policy that stops, and a tripper
Init ==
    InitWith({<<1, 2, Stop>>}, {ConsecutiveTripper(2)}, FALSE, NotFollowed)

\* one caller at a time: every policy and every tripper
InitSeq == InitWith(Policies, Trippers, TRUE, NotFollowed)

\* ------------------------------------------------------------ operations
Ops == {"Call", "Ready", "State", "Trip", "Break", "Reset", "ResetCounters"}

Entry(o) ==
    CASE o \in {"Call", "Ready", "State"} -> "State_tripped"
      [] o = "Trip" -> "Trip_tripped"
      [] o = "Break" -> "Break_broken"
      [] o = "Reset" -> "Reset_broken"
      [] o = "ResetCounters" -> "RC_consec"

InCall == Cardinality({q \in Procs : op[q] = "Call"})

ResetInProgress ==
    \E q \in Procs :
        /\ op[q] = "Reset"
        /\ pc[q] \in {"Reset_broken", "Reset_tripped", "Reset_gate",
                      "RC_consec", "RC_window"}

NoRace == [q \in Procs |-> FALSE]

\* Eligible without the test for backoff.Stop
Eligible_noStop(nb, sn) == sn > nb

\* the test of State(): the backoff has not stopped and has elapsed
Eligible(nb, sn) == nb # Stop /\ sn > nb

\* the time since lastFailure was stored, without the rounding of Unix()
RealSince == now - (lastFailure * Second + lastFrac)

\* history kept by a step of process p that is not a special case
Hist(p) ==
    /\ race' = IF op[p] = "Ready" THEN race ELSE NoRace
    /\ tripFresh' = (timing /\ tripFresh /\ op[p] = "Ready")

\* the caps on the clock and on the samples in the window
Horizon == IF timing THEN MaxTimeSeq ELSE MaxTime
SampleCap == IF timing THEN MaxSamplesSeq ELSE MaxSamples

\* the clock advances
Tick ==
    /\ now < Horizon
    /\ now' = now + 1
    /\ race' = NoRace
    /\ UNCHANGED <<fields, config, aside,
                   locals, lastFrac, tripFresh, breakHeld>>

\* the clock advances, up to MaxTimeWin
Clock_Add ==
    /\ now < MaxTimeWin
    /\ now' = now + 1
    /\ race' = NoRace
    /\ UNCHANGED <<fields, config, aside,
                   locals, lastFrac, tripFresh, breakHeld>>

\* a caller starts operation o of the Breaker interface, on the breaker or,
\* with w, on the eventEmitter that wraps it, which calls the breaker's
Start(p, o, w) ==
    /\ pc[p] = "idle"
    /\    /\ o = "Call" =>
                /\ consecFailures + InCall < MaxConsec
                /\ Window_Failures(counts) + Window_Successes(counts)
                      + InCall < SampleCap
          /\ op' = [op EXCEPT ![p] = o]
          /\ pc' = [pc EXCEPT ![p] = Entry(o)]
          /\ race' = IF o = "Ready"
                     THEN [race EXCEPT ![p] =
                              \/ \E q \in Procs : race[q]
                              \/ /\ tripped = 1
                                 /\ broken = 0
                                 /\ Eligible(nextBackOff, RealSince)]
                     ELSE NoRace
          /\ tripFresh' = (timing /\ tripFresh /\ o = "Ready")
          /\ breakHeld' = (breakHeld /\ o # "Reset")
          /\ tally' = IF ~timing \/ o = "Call" THEN tally
                       ELSE IF o = "Reset" THEN FreshTally ELSE NoTally
          /\ via' = [via EXCEPT ![p] = [w |-> w, on |-> w, sent |-> {}]]
    /\ UNCHANGED <<now, fields, config, late, pred, em, sub, ls, st, err,
                   since, lastFrac>>

InvokeOp(p, o) == Start(p, o, FALSE)

Invoke(p) == \E o \in Ops : InvokeOp(p, o)

\* the operation returns to its caller
Return(p) ==
    /\ pc[p] = "ret"
    /\ ~via[p].on
    /\ pc' = [pc EXCEPT ![p] = "idle"]
    /\ op' = [op EXCEPT ![p] = "none"]
    /\ st' = [st EXCEPT ![p] = "none"]
    /\ err' = [err EXCEPT ![p] = "none"]
    /\ since' = [since EXCEPT ![p] = 0]
    /\ race' = [race EXCEPT ![p] = FALSE]
    /\ UNCHANGED <<now, fields, config, aside, lastFrac, tripFresh, breakHeld>>

\* AfterState without the early return of Call(): the circuit runs whatever
\* Ready() said
AfterState_noReject(o, s) ==
    CASE o = "State" -> "ret"
      [] o = "Ready" -> IF s = "Halfopen" THEN "Ready_clear" ELSE "ret"
      [] o = "Call" -> IF s = "Halfopen" THEN "Ready_clear" ELSE "Call_exec"

\* where Ready() and Call() go on once State() has returned s
AfterState(o, s) ==
    CASE o = "State" -> "ret"
      [] o = "Ready" -> IF s = "Halfopen" THEN "Ready_clear" ELSE "ret"
      [] o = "Call" -> IF s = "Halfopen" THEN "Ready_clear"
                       ELSE IF s = "Closed" THEN "Call_exec" ELSE "ret"

\* State() returns s to process p; a Call that is not ready returns
\* ErrBreakerOpen
StateReturn(p, s) ==
    /\ st' = [st EXCEPT ![p] = s]
    /\ pc' = [pc EXCEPT ![p] = AfterState(op[p], s)]
    /\ err' = [err EXCEPT ![p] =
                 IF op[p] = "Call" /\ s = "Open" THEN "ErrBreakerOpen" ELSE @]

\* State(): if tripped := cb.Tripped(); !tripped { return Closed }
State_tripped(p) ==
    /\ pc[p] = "State_tripped"
    /\ IF tripped = 0
       THEN StateReturn(p, "Closed")
       ELSE /\ pc' = [pc EXCEPT ![p] = "State_broken"]
            /\ UNCHANGED <<st, err>>
    /\ Hist(p)
    /\ UNCHANGED <<now, fields, config, aside, op, since, lastFrac, breakHeld>>

\* State(): if atomic.LoadInt32(&cb.broken) == 1 { return Open }
State_broken(p) ==
    /\ pc[p] = "State_broken"
    /\ IF broken = 1
       THEN StateReturn(p, "Open")
       ELSE /\ pc' = [pc EXCEPT ![p] = "State_last"]
            /\ UNCHANGED <<st, err>>
    /\ Hist(p)
    /\ UNCHANGED <<now, fields, config, aside, op, since, lastFrac, breakHeld>>

\* State(): last := load(lastFailure); since := Now().Sub(time.Unix(last, 0))
State_last(p) ==
    /\ pc[p] = "State_last"
    /\ since' = [since EXCEPT ![p] = now - lastFailure * Second]
    /\ pc' = [pc EXCEPT ![p] = "State_gate"]
    /\ Hist(p)
    /\ UNCHANGED <<now, fields, config, aside,
                   op, st, err, lastFrac, breakHeld>>

\* State(): the section under backoffLock
State_gate(p) ==
    /\ pc[p] = "State_gate"
    /\ IF Eligible(nextBackOff, since[p]) /\ halfOpens = 0
       THEN /\ halfOpens' = 1
            /\ backoff' = BackOff_Next(backoff)
            /\ nextBackOff' = BackOff_Value(backoff')
            /\ StateReturn(p, "Halfopen")
            /\ tripFresh' = FALSE
            /\ race' = IF op[p] = "Ready" THEN race ELSE NoRace
       ELSE /\ StateReturn(p, "Open")
            /\ Hist(p)
            /\ UNCHANGED <<halfOpens, backoff, nextBackOff>>
    /\ since' = [since EXCEPT ![p] = 0]
    /\ UNCHANGED <<now, tripped, broken, consecFailures, lastFailure, counts,
                   config, aside, op, lastFrac, breakHeld>>

\* Ready(): case Halfopen: atomic.StoreInt64(&cb.halfOpens, 0)
Ready_clear(p) ==
    /\ pc[p] = "Ready_clear"
    /\ halfOpens' = 0
    /\ pc' = [pc EXCEPT ![p] = IF op[p] = "Call" THEN "Call_exec" ELSE "ret"]
    /\ Hist(p)
    /\ UNCHANGED <<now, tripped, broken, consecFailures, lastFailure,
                   nextBackOff, backoff, counts, config, aside,
                   op, st, err, since,
                   lastFrac, breakHeld>>

\* Call_exec where a Call whose alarm wins returns ErrBreakerTimeout without
\* going through the failure handler
Call_exec_bare(p) ==
    /\ pc[p] = "Call_exec"
    /\ \E e \in {"nil", "opErr", "ErrBreakerTimeout"} :
          /\ err' = [err EXCEPT ![p] = e]
          /\ pc' = [pc EXCEPT ![p] =
                       IF e = "nil" THEN "success_lock"
                       ELSE IF e = "opErr" THEN "fail_count" ELSE "ret"]
          /\ IF e = "ErrBreakerTimeout" /\ late # NotFollowed
             THEN late < MaxLate /\ late' = late + 1
             ELSE late' = late
          /\ tally' = IF timing THEN Sample(tally, st[p], e, now) ELSE tally
    /\ Hist(p)
    /\ UNCHANGED <<now, fields, config, pred, events, op, st, since,
                   lastFrac, breakHeld>>

\* Call(): the circuit runs and returns nil or its error, or the alarm wins
\* and the circuit goes on in its goroutine
Call_exec(p) ==
    /\ pc[p] = "Call_exec"
    /\ \E e \in {"nil", "opErr", "ErrBreakerTimeout"} :
          /\ err' = [err EXCEPT ![p] = e]
          /\ pc' = [pc EXCEPT ![p] =
                       IF e = "nil" THEN "success_lock" ELSE "fail_count"]
          /\ IF e = "ErrBreakerTimeout" /\ late # NotFollowed
             THEN late < MaxLate /\ late' = late + 1
             ELSE late' = late
          /\ tally' = IF timing THEN Sample(tally, st[p], e, now) ELSE tally
    /\ Hist(p)
    /\ UNCHANGED <<now, fields, config, pred, events, op, st, since,
                   lastFrac, breakHeld>>

\* the Calls that took their alarm and have not left Call: their done
\* channel d is still open (defer close(d) runs as Call returns)
InCallTimedOut ==
    {p \in Procs : /\ op[p] = "Call"
                   /\ err[p] = "ErrBreakerTimeout"
                   /\ pc[p] \notin {"idle", "ret"}}

\* Late_done where the late result is handed to success()
Late_done_records ==
    /\ late > Cardinality(InCallTimedOut)
    /\ late' = late - 1
    /\ consecFailures' = 0
    /\ counts' = Window_Success(counts, now)
    /\ UNCHANGED <<now, tripped, broken, halfOpens, lastFailure, nextBackOff,
                   backoff, config, tally, pred, events, locals, history>>

\* Late_done of a helper whose only way out is the send c <- result: the
\* Call of a helper counted in late has left its select, so nobody
\* receives
Late_done_sendOnly ==
    /\ late > 0
    /\ FALSE
    /\ late' = late - 1
    /\ UNCHANGED <<now, fields, config, tally, pred, events, locals,
                   history>>

\* the goroutine of a Call that timed out: circuit.Execute() returns, nobody
\* receives on c, and the helper waits in its select until d is closed by
\* the returning Call; then it ends and the result is dropped
Late_done ==
    /\ late > Cardinality(InCallTimedOut)
    /\ late' = late - 1
    /\ UNCHANGED <<now, fields, config, tally, pred, events, locals,
                   history>>

\* success_lock without backoff.Reset(): the schedule goes on from where it
\* was
success_lock_noReset(p) ==
    /\ pc[p] = "success_lock"
    /\ backoff' = BackOff_Next(backoff)
    /\ nextBackOff' = BackOff_Value(backoff')
    /\ pc' = [pc EXCEPT ![p] =
                 IF st[p] = "Halfopen" THEN "Reset_broken"
                 ELSE "success_consec"]
    /\ Hist(p)
    /\ UNCHANGED <<now, tripped, broken, halfOpens, consecFailures,
                   lastFailure, counts, config, aside, op, st, err, since,
                   lastFrac, breakHeld>>

\* success(): backoff.Reset(); nextBackOff = backoff.NextBackOff()
success_lock(p) ==
    /\ pc[p] = "success_lock"
    /\ backoff' = BackOff_Next(BackOff_Reset(backoff))
    /\ nextBackOff' = BackOff_Value(backoff')
    /\ pc' = [pc EXCEPT ![p] =
                 IF st[p] = "Halfopen" THEN "Reset_broken"
                 ELSE "success_consec"]
    /\ Hist(p)
    /\ UNCHANGED <<now, tripped, broken, halfOpens, consecFailures,
                   lastFailure, counts, config, aside, op, st, err, since,
                   lastFrac, breakHeld>>

\* Reset(): atomic.StoreInt32(&cb.broken, 0)
Reset_broken(p) ==
    /\ pc[p] = "Reset_broken"
    /\ broken' = 0
    /\ pc' = [pc EXCEPT ![p] = "Reset_tripped"]
    /\ Hist(p)
    /\ UNCHANGED <<now, tripped, halfOpens, consecFailures, lastFailure,
                   nextBackOff, backoff, counts, config, aside,
                   op, st, err, since,
                   lastFrac, breakHeld>>

\* Reset(): atomic.StoreInt32(&cb.tripped, 0)
Reset_tripped(p) ==
    /\ pc[p] = "Reset_tripped"
    /\ tripped' = 0
    /\ pc' = [pc EXCEPT ![p] = "Reset_gate"]
    /\ Hist(p)
    /\ UNCHANGED <<now, broken, halfOpens, consecFailures, lastFailure,
                   nextBackOff, backoff, counts, config, aside,
                   op, st, err, since,
                   lastFrac, breakHeld>>

\* Reset_gate without the store: Reset() leaves the trial gate as it is
Reset_gate_skip(p) ==
    /\ pc[p] = "Reset_gate"
    /\ pc' = [pc EXCEPT ![p] = "RC_consec"]
    /\ Hist(p)
    /\ UNCHANGED <<now, fields, config, aside, op, st, err, since, lastFrac,
                   breakHeld>>

\* Reset(): atomic.StoreInt64(&cb.halfOpens, 0)
Reset_gate(p) ==
    /\ pc[p] = "Reset_gate"
    /\ halfOpens' = 0
    /\ pc' = [pc EXCEPT ![p] = "RC_consec"]
    /\ Hist(p)
    /\ UNCHANGED <<now, tripped, broken, consecFailures, lastFailure,
                   nextBackOff, backoff, counts, config, aside,
                   op, st, err, since,
                   lastFrac, breakHeld>>

\* ResetCounters(): atomic.StoreInt64(&cb.consecFailures, 0)
RC_consec(p) ==
    /\ pc[p] = "RC_consec"
    /\ consecFailures' = 0
    /\ pc' = [pc EXCEPT ![p] = "RC_window"]
    /\ Hist(p)
    /\ UNCHANGED <<now, tripped, broken, halfOpens, lastFailure,
                   nextBackOff, backoff, counts, config, aside,
                   op, st, err, since,
                   lastFrac, breakHeld>>

\* ResetCounters(): cb.counts.Reset(); Reset() and ResetCounters() return,
\* success() goes on
RC_window(p) ==
    /\ pc[p] = "RC_window"
    /\ counts' = Window_Reset(counts)
    /\ pc' = [pc EXCEPT ![p] =
                 IF op[p] = "Call" THEN "success_consec" ELSE "ret"]
    /\ Hist(p)
    /\ UNCHANGED <<now, tripped, broken, halfOpens, consecFailures,
                   lastFailure, nextBackOff, backoff, config, aside,
                   op, st, err,
                   since, lastFrac, breakHeld>>

\* success_consec without the store: a success leaves the counter alone
success_consec_skip(p) ==
    /\ pc[p] = "success_consec"
    /\ pc' = [pc EXCEPT ![p] = "success_window"]
    /\ Hist(p)
    /\ UNCHANGED <<now, fields, config, aside, op, st, err, since, lastFrac,
                   breakHeld>>

\* success(): atomic.StoreInt64(&cb.consecFailures, 0)
success_consec(p) ==
    /\ pc[p] = "success_consec"
    /\ consecFailures' = 0
    /\ pc' = [pc EXCEPT ![p] = "success_window"]
    /\ Hist(p)
    /\ UNCHANGED <<now, tripped, broken, halfOpens, lastFailure,
                   nextBackOff, backoff, counts, config, aside,
                   op, st, err, since,
                   lastFrac, breakHeld>>

\* success(): cb.counts.Success()
success_window(p) ==
    /\ pc[p] = "success_window"
    /\ counts' = Window_Success(counts, now)
    /\ pc' = [pc EXCEPT ![p] = "ret"]
    /\ Hist(p)
    /\ UNCHANGED <<now, tripped, broken, halfOpens, consecFailures,
                   lastFailure, nextBackOff, backoff, config, aside,
                   op, st, err,
                   since, lastFrac, breakHeld>>

\* fail(): cb.counts.Fail()
fail_count(p) ==
    /\ pc[p] = "fail_count"
    /\ counts' = Window_Fail(counts, now)
    /\ pc' = [pc EXCEPT ![p] = "fail_consec"]
    /\ Hist(p)
    /\ UNCHANGED <<now, tripped, broken, halfOpens, consecFailures,
                   lastFailure, nextBackOff, backoff, config, aside,
                   op, st, err,
                   since, lastFrac, breakHeld>>

\* fail_consec adding 2: the failure handler counts the failure twice
fail_consec_twice(p) ==
    /\ pc[p] = "fail_consec"
    /\ consecFailures' = consecFailures + 2
    /\ pc' = [pc EXCEPT ![p] = "fail_last"]
    /\ Hist(p)
    /\ UNCHANGED <<now, tripped, broken, halfOpens, lastFailure,
                   nextBackOff, backoff, counts, config, aside, op, st, err,
                   since, lastFrac, breakHeld>>

\* fail(): atomic.AddInt64(&cb.consecFailures, 1)
fail_consec(p) ==
    /\ pc[p] = "fail_consec"
    /\ consecFailures' = consecFailures + 1
    /\ pc' = [pc EXCEPT ![p] = "fail_last"]
    /\ Hist(p)
    /\ UNCHANGED <<now, tripped, broken, halfOpens, lastFailure,
                   nextBackOff, backoff, counts, config, aside,
                   op, st, err, since,
                   lastFrac, breakHeld>>

\* fail(): atomic.StoreInt64(&cb.lastFailure, now.Unix())
fail_last(p) ==
    /\ pc[p] = "fail_last"
    /\ lastFailure' = now \div Second
    /\ lastFrac' = now % Second
    /\ pc' = [pc EXCEPT ![p] = "fail_tripper"]
    /\ Hist(p)
    /\ UNCHANGED <<now, tripped, broken, halfOpens, consecFailures,
                   nextBackOff, backoff, counts, config, aside,
                   op, st, err, since,
                   breakHeld>>

\* fail(): if cb.tripper.Trip(cb) { cb.Trip() }
fail_tripper(p) ==
    /\ pc[p] = "fail_tripper"
    /\ pc' = [pc EXCEPT ![p] =
                 IF TripFunc_Trip(tripper, counts, consecFailures)
                 THEN "Trip_tripped" ELSE "ret"]
    /\ Hist(p)
    /\ UNCHANGED <<now, fields, config, aside, op, st, err, since, lastFrac,
                   breakHeld>>

\* Break(): atomic.StoreInt32(&cb.broken, 1)
Break_broken(p) ==
    /\ pc[p] = "Break_broken"
    /\ broken' = 1
    /\ pc' = [pc EXCEPT ![p] = "Trip_tripped"]
    /\ Hist(p)
    /\ UNCHANGED <<now, tripped, halfOpens, consecFailures, lastFailure,
                   nextBackOff, backoff, counts, config, aside,
                   op, st, err, since,
                   lastFrac, breakHeld>>

\* Trip(): atomic.StoreInt32(&cb.tripped, 1)
Trip_tripped(p) ==
    /\ pc[p] = "Trip_tripped"
    /\ tripped' = 1
    /\ pc' = [pc EXCEPT ![p] = "Trip_last"]
    /\ Hist(p)
    /\ UNCHANGED <<now, broken, halfOpens, consecFailures, lastFailure,
                   nextBackOff, backoff, counts, config, aside,
                   op, st, err, since,
                   lastFrac, breakHeld>>

\* Trip(): atomic.StoreInt64(&cb.lastFailure, now.Unix())
Trip_last(p) ==
    /\ pc[p] = "Trip_last"
    /\ lastFailure' = now \div Second
    /\ lastFrac' = now % Second
    /\ pc' = [pc EXCEPT ![p] = "ret"]
    /\ race' = NoRace
    /\ tripFresh' = (timing /\ op[p] = "Trip")
    /\ breakHeld' = IF op[p] = "Break"
                    THEN ~ResetInProgress /\ broken = 1 /\ tripped = 1
                    ELSE breakHeld
    /\ UNCHANGED <<now, tripped, broken, halfOpens, consecFailures,
                   nextBackOff, backoff, counts, config, aside,
                   op, st, err, since>>

\* ---------------------------------------------------------- eventEmitter
\* the event the eventEmitter defers for operation o whose Ready() saw s
EventOf(o, s) ==
    CASE o = "Trip" -> "Tripped"
      [] o = "Reset" -> "Reset"
      [] o = "Ready" /\ s = "Halfopen" -> "Ready"
      [] OTHER -> "none"

\* a send on e.events finds the Emit task parked in its select
Accepts(e) == e.task = "select" /\ ~e.ctx

\* emitEvent(e, ev): select { case e.Events() <- ev: default: }
emitEvent(e, k) ==
    IF Accepts(e) THEN [e EXCEPT !.task = "have", !.ev = k] ELSE e

\* Emitter_defer where the eventEmitter returns nil whatever the breaker
\* returned
Emitter_defer_swallow(p) ==
    /\ pc[p] = "ret"
    /\ via[p].on
    /\ LET k == EventOf(op[p], st[p])
       IN  /\ via' = [via EXCEPT ![p].on = FALSE,
                                 ![p].sent = IF k = "none" THEN @
                                             ELSE @ \cup {k}]
           /\ em' = IF k = "none" THEN em
                    ELSE emitEvent(em, k)
    /\ err' = [err EXCEPT ![p] = IF op[p] = "Call" THEN "nil" ELSE @]
    /\ UNCHANGED <<now, fields, config, late, tally, pred, sub, ls, pc, op,
                   st, since, history>>

\* the wrapped operation has returned: the deferred emitEvent runs, if any,
\* and the method of the eventEmitter is left to return what it got
Emitter_defer(p) ==
    /\ pc[p] = "ret"
    /\ via[p].on
    /\ LET k == EventOf(op[p], st[p])
       IN  IF k = "none"
           THEN /\ via' = [via EXCEPT ![p].on = FALSE]
                /\ em' = em
           ELSE /\ via' = [via EXCEPT ![p].on = FALSE,
                                      ![p].sent = @ \cup {k}]
                /\ em' = emitEvent(em, k)
    /\ UNCHANGED <<now, fields, config, late, tally, pred, sub, ls, locals,
                   history>>

\* go cb.Emit(ctx): close(e.emitting)
Emit_start ==
    /\ em.task = "off"
    /\ em' = [em EXCEPT !.task = "run"]
    /\ UNCHANGED <<now, fields, config, late, tally, pred, via, sub, ls,
                   locals, history>>

\* Emit(): the select finds ctx.Done() closed and returns, or parks
Emit_select ==
    /\ em.task = "run"
    /\ em' = [em EXCEPT !.task = IF em.ctx THEN "done" ELSE "select"]
    /\ UNCHANGED <<now, fields, config, late, tally, pred, via, sub, ls,
                   locals, history>>

\* Emit_done of an Emit that looks at its context only between two events:
\* parked in its select, it stays there
Emit_done_parked ==
    /\ em.task = "select"
    /\ em.ctx
    /\ UNCHANGED vars

\* Emit(): case <-ctx.Done(): return
Emit_done ==
    /\ em.task = "select"
    /\ em.ctx
    /\ em' = [em EXCEPT !.task = "done"]
    /\ UNCHANGED <<now, fields, config, late, tally, pred, via, sub, ls,
                   locals, history>>

\* Emit(): e.mutex.RLock(), and the range over e.subscribers begins
Emit_rlock ==
    /\ em.task = "have"
    /\ em' = [em EXCEPT !.task = "locked", !.todo = em.subs]
    /\ UNCHANGED <<now, fields, config, late, tally, pred, via, sub, ls,
                   locals, history>>

\* Emit_send of a fan-out that keeps a served subscriber on its list
Emit_send_again(s) ==
    /\ em.task = "locked"
    /\ s \in em.todo
    /\ IF sub[s].pc = "recv"
       THEN /\ sub' = [sub EXCEPT ![s].pc = "away", ![s].last = em.ev]
            /\ em' = em
       ELSE /\ sub' = sub
            /\ em' = [em EXCEPT !.todo = @ \ {s}]
    /\ UNCHANGED <<now, fields, config, late, tally, pred, via, ls, locals,
                   history>>

\* Emit(): select { case l.C <- ev: default: } for one subscriber; the send
\* on the unbuffered l.C goes through if its reader is parked in <-s.C
Emit_send(s) ==
    /\ em.task = "locked"
    /\ s \in em.todo
    /\ IF sub[s].pc = "recv"
       THEN /\ sub' = [sub EXCEPT ![s].pc = "away", ![s].last = em.ev]
            /\ em' = [em EXCEPT !.todo = @ \ {s}]
       ELSE /\ sub' = sub
            /\ em' = [em EXCEPT !.todo = @ \ {s}]
    /\ UNCHANGED <<now, fields, config, late, tally, pred, via, ls, locals,
                   history>>

\* Emit(): e.mutex.RUnlock(), and the loop goes back to its select
Emit_runlock ==
    /\ em.task = "locked"
    /\ em.todo = {}
    /\ em' = [em EXCEPT !.task = "run", !.ev = "none"]
    /\ UNCHANGED <<now, fields, config, late, tally, pred, via, sub, ls,
                   locals, history>>

\* the context given to Emit is cancelled
Cancel_emit ==
    /\ ~em.ctx
    /\ em' = [em EXCEPT !.ctx = TRUE]
    /\ UNCHANGED <<now, fields, config, late, tally, pred, via, sub, ls,
                   locals, history>>

\* Subscribe(ctx): the subscription enters e.subscribers under e.mutex
\* (Lock waits for the RUnlock of a fan-out); ctx is not used
Subscribe(s) ==
    /\ sub[s].pc = "none"
    /\ em.task # "locked"
    /\ em' = [em EXCEPT !.subs = @ \cup {s}]
    /\ sub' = [sub EXCEPT ![s].pc = "away"]
    /\ UNCHANGED <<now, fields, config, late, tally, pred, via, ls, locals,
                   history>>

\* s.Stop(): e.remove(s) deletes the subscription under e.mutex
Subscription_Stop(s) ==
    /\ sub[s].pc # "none"
    /\ ~sub[s].stopped
    /\ em.task # "locked"
    /\ em' = [em EXCEPT !.subs = @ \ {s}]
    /\ sub' = [sub EXCEPT ![s].stopped = TRUE]
    /\ UNCHANGED <<now, fields, config, late, tally, pred, via, ls, locals,
                   history>>

\* the context given to Subscribe is cancelled
Cancel_sub(s) ==
    /\ sub[s].pc # "none"
    /\ ~sub[s].ctx
    /\ sub' = [sub EXCEPT ![s].ctx = TRUE]
    /\ UNCHANGED <<now, fields, config, late, tally, pred, via, em, ls,
                   locals, history>>

\* the reader of a subscription comes to its <-s.C
Sub_recv(s) ==
    /\ sub[s].pc = "away"
    /\ sub' = [sub EXCEPT ![s].pc = "recv"]
    /\ UNCHANGED <<now, fields, config, late, tally, pred, via, em, ls,
                   locals, history>>

\* ------------------------------------------------ sendEvent, listeners
\* what a step of sendEvent or RemoveListener leaves alone
ListenKeeps ==
    UNCHANGED <<now, fields, config, late, tally, pred, via, em, sub, st,
                err, since, history>>

Room(c) == Len(ls.buf[c]) < ListenerCap

\* the Subscribe goroutine is parked in its select and not woken by Done
Receiving == ls.go.pc = "select" /\ ~ls.go.ctx

\* Reset() or fail() comes to cb.sendEvent(event): the range over
\* cb.eventReceivers begins
Publish(p) ==
    /\ pc[p] = "idle"
    /\ ls.n < MaxPub
    /\ op' = [op EXCEPT ![p] = "sendEvent"]
    /\ pc' = [pc EXCEPT ![p] =
                 IF ls.go.pc = "none" THEN "se_range" ELSE "se_recv"]
    /\ ls' = [ls EXCEPT !.n = @ + 1,
                        !.loc[p] = [NoLoc EXCEPT
                                       !.ev = [n |-> ls.n + 1,
                                               after |-> ls.removed]]]
    /\ ListenKeeps

\* sendEvent: receiver <- event, on the unbuffered eventReader
se_recv(p) ==
    /\ pc[p] = "se_recv"
    /\ Receiving
    /\ ls' = [ls EXCEPT !.go.pc = "have", !.go.v = ls.loc[p].ev.n]
    /\ pc' = [pc EXCEPT ![p] = "se_range"]
    /\ UNCHANGED op
    /\ ListenKeeps

\* sendEvent: for _, listener := range cb.listeners takes the slice
se_range(p) ==
    /\ pc[p] = "se_range"
    /\ ls' = [ls EXCEPT !.loc[p].snap = ls.len, !.loc[p].i = 1]
    /\ pc' = [pc EXCEPT ![p] = IF ls.len >= 1 THEN "se_load" ELSE "ret"]
    /\ UNCHANGED op
    /\ ListenKeeps

\* sendEvent: the loop reads its element of the backing array
se_load(p) ==
    /\ pc[p] = "se_load"
    /\ ls' = [ls EXCEPT !.loc[p].c = ls.arr[ls.loc[p].i]]
    /\ pc' = [pc EXCEPT ![p] = "se_select"]
    /\ UNCHANGED op
    /\ ListenKeeps

\* where sendEvent goes once its event is in the channel of the listener
AfterSend(l) == IF l.i + 1 <= l.snap THEN "se_load" ELSE "ret"

\* sendEvent: select { case listener <- le: default: ... }
se_select(p) ==
    /\ pc[p] = "se_select"
    /\ LET l == ls.loc[p]
       IN  IF Room(l.c)
           THEN /\ ls' = [ls EXCEPT !.buf[l.c] = Append(@, l.ev),
                                    !.loc[p].i = @ + 1]
                /\ pc' = [pc EXCEPT ![p] = AfterSend(l)]
           ELSE /\ ls' = ls
                /\ pc' = [pc EXCEPT ![p] = "se_evict"]
    /\ UNCHANGED op
    /\ ListenKeeps

\* sendEvent: default: <-listener
se_evict(p) ==
    /\ pc[p] = "se_evict"
    /\ ls.buf[ls.loc[p].c] # <<>>
    /\ ls' = [ls EXCEPT !.buf[ls.loc[p].c] = Tail(@)]
    /\ pc' = [pc EXCEPT ![p] = "se_put"]
    /\ UNCHANGED op
    /\ ListenKeeps

\* sendEvent: listener <- le, after the receive
se_put(p) ==
    /\ pc[p] = "se_put"
    /\ LET l == ls.loc[p]
       IN  /\ Room(l.c)
           /\ ls' = [ls EXCEPT !.buf[l.c] = Append(@, l.ev),
                               !.loc[p].i = @ + 1]
           /\ pc' = [pc EXCEPT ![p] = AfterSend(l)]
    /\ UNCHANGED op
    /\ ListenKeeps

\* RemoveListener(c): for i, receiver := range cb.listeners takes the slice
RemoveListener(p, c) ==
    /\ pc[p] = "idle"
    /\ c \notin ls.removed
    /\ op' = [op EXCEPT ![p] = "RemoveListener"]
    /\ pc' = [pc EXCEPT ![p] = IF ls.len >= 1 THEN "rm_scan" ELSE "ret"]
    /\ ls' = [ls EXCEPT !.loc[p] = [NoLoc EXCEPT !.c = c, !.snap = ls.len,
                                                 !.i = 1]]
    /\ ListenKeeps

\* RemoveListener: if listener == receiver, on one element; return false
\* at the end of the loop
rm_scan(p) ==
    /\ pc[p] = "rm_scan"
    /\ LET l == ls.loc[p]
       IN  IF ls.arr[l.i] = l.c
           THEN /\ pc' = [pc EXCEPT ![p] = "rm_shift"]
                /\ ls' = ls
           ELSE /\ pc' = [pc EXCEPT ![p] =
                             IF l.i + 1 <= l.snap THEN "rm_scan" ELSE "ret"]
                /\ ls' = [ls EXCEPT !.loc[p].i = @ + 1]
    /\ UNCHANGED op
    /\ ListenKeeps

\* RemoveListener: append(cb.listeners[:i], cb.listeners[i+1:]...) reads
\* the slice again and moves the elements after i down in the backing
\* array; cb.listeners[i+1:] panics when the slice has become shorter
rm_shift(p) ==
    /\ pc[p] = "rm_shift"
    /\ LET l == ls.loc[p]
       IN  IF l.i > ls.len
           THEN /\ pc' = [pc EXCEPT ![p] = "panic"]
                /\ ls' = ls
           ELSE /\ pc' = [pc EXCEPT ![p] = "rm_store"]
                /\ ls' = [ls EXCEPT
                             !.arr = [j \in 1..NumListeners |->
                                        IF j >= l.i /\ j < ls.len
                                        THEN ls.arr[j + 1] ELSE ls.arr[j]],
                             !.loc[p].snap = ls.len - 1]
    /\ UNCHANGED op
    /\ ListenKeeps

\* RemoveListener: cb.listeners = the slice append returned; return true
rm_store(p) ==
    /\ pc[p] = "rm_store"
    /\ ls' = [ls EXCEPT !.len = ls.loc[p].snap,
                        !.removed = @ \cup {ls.loc[p].c}]
    /\ pc' = [pc EXCEPT ![p] = "ret"]
    /\ UNCHANGED op
    /\ ListenKeeps

\* the owner of a listener channel receives from it
Listener_read(c) ==
    /\ ls.buf[c] # <<>>
    /\ ls' = [ls EXCEPT !.buf[c] = Tail(@)]
    /\ UNCHANGED <<pc, op>>
    /\ ListenKeeps

\* Subscribe goroutine: select { case output <- v: default: ... }
go_select ==
    /\ ls.go.pc = "have"
    /\ ls' = IF Len(ls.go.out) < OutputCap
             THEN [ls EXCEPT !.go.out = Append(@, ls.go.v),
                             !.go.pc = "run"]
             ELSE [ls EXCEPT !.go.pc = "evict"]
    /\ UNCHANGED <<pc, op>>
    /\ ListenKeeps

\* Subscribe goroutine: default: <-output
go_evict ==
    /\ ls.go.pc = "evict"
    /\ ls.go.out # <<>>
    /\ ls' = [ls EXCEPT !.go.out = Tail(@), !.go.pc = "put"]
    /\ UNCHANGED <<pc, op>>
    /\ ListenKeeps

\* Subscribe goroutine: output <- v, after the receive
go_put ==
    /\ ls.go.pc = "put"
    /\ Len(ls.go.out) < OutputCap
    /\ ls' = [ls EXCEPT !.go.out = Append(@, ls.go.v), !.go.pc = "run"]
    /\ UNCHANGED <<pc, op>>
    /\ ListenKeeps

\* Subscribe goroutine: the select finds no sender on eventReader and
\* ctx.Done() open, and parks
go_park ==
    /\ ls.go.pc = "run"
    /\ ~ls.go.ctx
    /\ \A p \in Procs : pc[p] # "se_recv"
    /\ ls' = [ls EXCEPT !.go.pc = "select"]
    /\ UNCHANGED <<pc, op>>
    /\ ListenKeeps

\* Subscribe goroutine: case v := <-eventReader, with the sendEvent of p
\* waiting in its send; the select may take it whether or not ctx.Done() is
\* closed too
go_take(p) ==
    /\ ls.go.pc = "run"
    /\ pc[p] = "se_recv"
    /\ ls' = [ls EXCEPT !.go.pc = "have", !.go.v = ls.loc[p].ev.n]
    /\ pc' = [pc EXCEPT ![p] = "se_range"]
    /\ UNCHANGED op
    /\ ListenKeeps

\* Subscribe goroutine: case <-ctx.Done(): return
go_done ==
    /\ ls.go.pc \in {"run", "select"}
    /\ ls.go.ctx
    /\ ls' = [ls EXCEPT !.go.pc = "done"]
    /\ UNCHANGED <<pc, op>>
    /\ ListenKeeps

\* the context given to Subscribe is cancelled
Cancel_go ==
    /\ ls.go.pc # "none"
    /\ ~ls.go.ctx
    /\ ls' = [ls EXCEPT !.go.ctx = TRUE]
    /\ UNCHANGED <<pc, op>>
    /\ ListenKeeps

\* the subscriber receives from the channel Subscribe returned
Output_read ==
    /\ ls.go.out # <<>>
    /\ ls' = [ls EXCEPT !.go.out = Tail(@)]
    /\ UNCHANGED <<pc, op>>
    /\ ListenKeeps

\* ----------------------------------------------------------- http.Client
Verbs == {"Do", "Get", "Head", "Post", "PostForm"}

\* the URLs asked for: the lookup knows a breaker for the host of the first
\* and none for the host of the second
Urls == {1, 2}

BreakerLookup(u) == u = 1

\* the arguments of verb v for URL u: the request of Do, the url of Get and
\* Head, url, bodyType and body of Post, url and data of PostForm
ArgsOf(v, u) ==
    CASE v = "Post" -> <<u, "bodyType", "body">>
      [] v = "PostForm" -> <<u, "data">>
      [] OTHER -> <<u>>

\* what the underlying client returns: no response and an error, or a
\* response with its status and no error
Statuses == {200, 499, 500, 503}
NilResponse == 0

Outcomes ==
    {[resp |-> NilResponse, err |-> "clientErr"]}
        \cup {[resp |-> c, err |-> "nil"] : c \in Statuses}

\* Execute() of doCtx, getCtx, headCtx, postCtx, postFormCtx once the
\* client has returned o: with ErrorOnBadStatus the status of the response
\* is read, whether there is a response or not
Execute(o, bad) ==
    IF bad
    THEN IF o.resp = NilResponse THEN "panic"
         ELSE IF o.resp > 499 THEN "ErrBadStatus" ELSE o.err
    ELSE o.err

\* the call a verb makes on the underlying client when the lookup gives no
\* breaker
PassThrough(v, a) ==
    IF v = "Post" THEN [verb |-> "Head", args |-> <<a[1]>>]
    ELSE [verb |-> v, args |-> a]

\* what a step of the decorator alone leaves as it is
WebKeeps == UNCHANGED <<now, fields, tripper, timing, aside, locals, history>>

\* NewClient(l, options...): ErrorOnBadStatus is true unless the option says
\* otherwise
NewClient(b) ==
    /\ web.state = "none"
    /\ web' = [NoWeb EXCEPT !.state = "idle", !.errOnBadStatus = b]
    /\ WebKeeps

\* Do, Get, Head, Post, PostForm: the breaker is looked up for the URL
Client_verb(p, v, u) ==
    /\ web.state \in {"idle", "done"}
    /\ pc[p] = "idle"
    /\ web' = [web EXCEPT
                  !.state = IF BreakerLookup(u) THEN "call" ELSE "forward",
                  !.verb = v,
                  !.args = ArgsOf(v, u),
                  !.call = <<>>,
                  !.out = <<>>,
                  !.res = <<>>]
    /\ WebKeeps

\* breaker.Call(ctx, c.timeout), c.timeout being zero
Client_Call(p) ==
    /\ web.state = "call"
    /\ Start(p, "Call", FALSE)

\* Call(): circuit.Execute() is the Execute() of the context, which calls
\* the verb on the underlying client and maps what it returns
Ctx_Execute(p) ==
    /\ pc[p] = "Call_exec"
    /\ web.state = "call"
    /\ \E o \in Outcomes :
          LET e == Execute(o, web.errOnBadStatus)
          IN  /\ web' = [web EXCEPT
                            !.call = [verb |-> web.verb, args |-> web.args],
                            !.out = o]
              /\ IF e = "panic"
                 THEN /\ pc' = [pc EXCEPT ![p] = "panic"]
                      /\ err' = err
                      /\ tally' = tally
                 ELSE /\ pc' = [pc EXCEPT ![p] =
                                   IF e = "nil" THEN "success_lock"
                                   ELSE "fail_count"]
                      /\ err' = [err EXCEPT ![p] = e]
                      /\ tally' = IF timing THEN Sample(tally, st[p], e, now)
                                  ELSE tally
    /\ Hist(p)
    /\ UNCHANGED <<now, fields, tripper, timing, late, pred, events, op, st,
                   since, lastFrac, breakHeld>>

\* the verb after Call(): nil and the error of Call, or ctx.Response and
\* ctx.Error
Client_return(p) ==
    /\ pc[p] = "ret"
    /\ web.state = "call"
    /\ web' = [web EXCEPT
                  !.state = "done",
                  !.res = IF err[p] # "nil"
                          THEN [resp |-> NilResponse, err |-> err[p]]
                          ELSE web.out]
    /\ WebKeeps

Client_done(p) ==
    /\ web.state = "done"
    /\ Return(p)

\* the verb when the lookup gives no breaker: the underlying client is
\* called and what it returns is returned
Client_forward(p) ==
    /\ web.state = "forward"
    /\ \E o \in Outcomes :
          web' = [web EXCEPT !.state = "done",
                             !.call = PassThrough(web.verb, web.args),
                             !.out = o,
                             !.res = o]
    /\ WebKeeps

\* ------------------------------------------------------- specifications
ProcStep(p) ==
    \/ Invoke(p)
    \/ Return(p)
    \/ State_tripped(p)
    \/ State_broken(p)
    \/ State_last(p)
    \/ State_gate(p)
    \/ Ready_clear(p)
    \/ Call_exec(p)
    \/ success_lock(p)
    \/ Reset_broken(p)
    \/ Reset_tripped(p)
    \/ Reset_gate(p)
    \/ RC_consec(p)
    \/ RC_window(p)
    \/ success_consec(p)
    \/ success_window(p)
    \/ fail_count(p)
    \/ fail_consec(p)
    \/ fail_last(p)
    \/ fail_tripper(p)
    \/ Break_broken(p)
    \/ Trip_tripped(p)
    \/ Trip_last(p)

\* callers run concurrently and the clock advances at any moment
Next ==
    \/ Tick
    \/ \E p \in Procs : ProcStep(p)

Spec == Init /\ [][Next]_vars

\* one caller, one operation at a time; the clock advances between
\* operations
OthersIdle(p) == \A q \in Procs \ {p} : pc[q] = "idle"

Caller == 1

NextSeq ==
    \/ (\A q \in Procs : pc[q] = "idle") /\ Tick
    \/ \E p \in {Caller} : OthersIdle(p) /\ ProcStep(p)

SpecSeq == InitSeq /\ [][NextSeq]_vars

\* one caller that only invokes Call, with or without a timeout; a circuit
\* that outlived its Call ends at any moment, during the failure handler or
\* during a later Call
InitLate == InitWith({<<1, 2>>}, {ThresholdTripper(1)}, TRUE, 0)

RunCall(p) ==
    \/ Return(p)
    \/ State_tripped(p)
    \/ State_broken(p)
    \/ State_last(p)
    \/ State_gate(p)
    \/ Ready_clear(p)
    \/ Call_exec(p)
    \/ success_lock(p)
    \/ Reset_broken(p)
    \/ Reset_tripped(p)
    \/ Reset_gate(p)
    \/ RC_consec(p)
    \/ RC_window(p)
    \/ success_consec(p)
    \/ success_window(p)
    \/ fail_count(p)
    \/ fail_consec(p)
    \/ fail_last(p)
    \/ fail_tripper(p)
    \/ Trip_tripped(p)
    \/ Trip_last(p)

NextLate ==
    \/ (\A q \in Procs : pc[q] = "idle") /\ Tick
    \/ Late_done
    \/ InvokeOp(Caller, "Call")
    \/ RunCall(Caller)

SpecLate == InitLate /\ [][NextLate]_vars

\* the same with the scheduler's guarantees: the caller's goroutine runs
\* while it has a step, and a helper whose circuit is given to return runs
\* on once its select has a ready case
FairHelper == WF_vars(RunCall(Caller)) /\ WF_vars(Late_done)

SpecHelper == SpecLate /\ FairHelper

\* callers of the predicates of errors.go, on every error value
InitErr == InitWith({<<1>>}, {NilTripper}, FALSE, NotFollowed)

NextErr ==
    \E p \in Procs : Pred_invoke(p) \/ Pred_loop(p) \/ Pred_return(p)

SpecErr == InitErr /\ [][NextErr]_vars

\* a breaker with NilTripper and one caller that only invokes Call, one Call
\* at a time; the clock advances between two Calls, well past the span of
\* the window
InitWin == InitWith({<<1>>}, {NilTripper}, TRUE, NotFollowed)

RunWin(p) ==
    \/ Return(p)
    \/ State_tripped(p)
    \/ Call_exec(p)
    \/ success_lock(p)
    \/ success_consec(p)
    \/ success_window(p)
    \/ fail_count(p)
    \/ fail_consec(p)
    \/ fail_last(p)
    \/ fail_tripper(p)

NextWin ==
    \/ (\A q \in Procs : pc[q] = "idle") /\ Clock_Add
    \/ InvokeOp(Caller, "Call")
    \/ RunWin(Caller)

SpecWin == InitWin /\ [][NextWin]_vars

\* a breaker with ThresholdTripper(2) and a backoff that never retries, whose
\* callers run their Calls concurrently while the clock advances: nothing
\* resets it
InitTrip == InitWith({<<Stop>>}, {ThresholdTripper(2)}, TRUE, NotFollowed)

RunTrip(p) ==
    \/ Return(p)
    \/ State_tripped(p)
    \/ State_broken(p)
    \/ State_last(p)
    \/ State_gate(p)
    \/ Call_exec(p)
    \/ success_lock(p)
    \/ success_consec(p)
    \/ success_window(p)
    \/ fail_count(p)
    \/ fail_consec(p)
    \/ fail_last(p)
    \/ fail_tripper(p)
    \/ Trip_tripped(p)
    \/ Trip_last(p)

NextTrip ==
    \/ Tick
    \/ \E p \in Procs : InvokeOp(p, "Call")
    \/ \E p \in Procs : RunTrip(p)

SpecTrip == InitTrip /\ [][NextTrip]_vars

\* one caller that only invokes Break() and another that only invokes
\* Reset(), at the same time
Resetter == 2

InitBreak == InitWith({<<1>>}, {NilTripper}, FALSE, NotFollowed)

RunBreak(p) ==
    \/ Return(p)
    \/ Break_broken(p)
    \/ Trip_tripped(p)
    \/ Trip_last(p)
    \/ Reset_broken(p)
    \/ Reset_tripped(p)
    \/ Reset_gate(p)
    \/ RC_consec(p)
    \/ RC_window(p)

NextBreak ==
    \/ Tick
    \/ InvokeOp(Caller, "Break")
    \/ InvokeOp(Resetter, "Reset")
    \/ \E p \in Procs : RunBreak(p)

SpecBreak == InitBreak /\ [][NextBreak]_vars

\* a breaker wrapped by NewEventEmitter, without subscribers: one caller
\* that goes through the eventEmitter, the Emit task and the cancellation of
\* its context
InitEm == InitWith({<<1>>}, {ThresholdTripper(1)}, FALSE, NotFollowed)

\* the steps of Emit() when nobody has subscribed: the range over
\* e.subscribers is empty
EmitLoop ==
    \/ Emit_start
    \/ Emit_select
    \/ Emit_done
    \/ Emit_rlock
    \/ Emit_runlock

EmitStep ==
    \/ EmitLoop
    \/ \E s \in Subs : Emit_send(s)

SubStep(s) ==
    \/ Subscribe(s)
    \/ Subscription_Stop(s)
    \/ Cancel_sub(s)
    \/ Sub_recv(s)

NextEm ==
    \/ Tick
    \/ \E o \in Ops : Start(Caller, o, TRUE)
    \/ RunCall(Caller)
    \/ Break_broken(Caller)
    \/ Emitter_defer(Caller)
    \/ EmitLoop
    \/ Cancel_emit

SpecEm == InitEm /\ [][NextEm]_vars

\* a breaker wrapped by NewEventEmitter whose caller trips and resets it
\* through the eventEmitter, with the Emit task, the subscriptions, their
\* readers and the cancellation of the contexts.  The Emit task goes on
\* whenever it can.
RunFan(p) ==
    \/ Trip_tripped(p)
    \/ Trip_last(p)
    \/ Reset_broken(p)
    \/ Reset_tripped(p)
    \/ Reset_gate(p)
    \/ RC_consec(p)
    \/ RC_window(p)
    \/ Emitter_defer(p)
    \/ Return(p)

NextFan ==
    \/ \E o \in {"Trip", "Reset"} : Start(Caller, o, TRUE)
    \/ RunFan(Caller)
    \/ EmitStep
    \/ Cancel_emit
    \/ \E s \in Subs : SubStep(s)

FairFan == WF_vars(EmitStep)

SpecFan == InitEm /\ [][NextFan]_vars /\ FairFan

\* what State() returns when it runs in this state without interruption
StateNow ==
    IF tripped = 0 THEN "Closed"
    ELSE IF broken = 1 THEN "Open"
    ELSE IF Eligible(nextBackOff, now - lastFailure * Second) /\ halfOpens = 0
         THEN "Halfopen"
         ELSE "Open"

\* TestBreakerEvents: go cb.Emit(ctx); <-cb.Emitting(); s := cb.Subscribe(ctx);
\* cb.Trip(); <-s.C; c.Add(...); cb.Ready(); <-s.C; cb.Reset(); <-s.C; and
\* the deferred s.Stop() and cancel().  The test is between two statements,
\* its last operation having published sent and its last <-s.C having
\* returned last
TestAt(sent, last) ==
    /\ pc[Caller] = "idle"
    /\ sub[1].pc = "away"
    /\ ~sub[1].stopped
    /\ via[Caller].sent = sent
    /\ sub[1].last = last

Test_Subscribe == em.task # "off" /\ Subscribe(1)

Test_Trip == TestAt({}, "none") /\ Start(Caller, "Trip", TRUE)

Test_Add == TestAt({"Tripped"}, "Tripped") /\ StateNow # "Halfopen" /\ Tick

Test_Ready ==
    /\ TestAt({"Tripped"}, "Tripped")
    /\ StateNow = "Halfopen"
    /\ Start(Caller, "Ready", TRUE)

Test_Reset == TestAt({"Ready"}, "Ready") /\ Start(Caller, "Reset", TRUE)

\* <-s.C, after an operation that has published
Test_read ==
    /\ \E k \in EventKinds : TestAt({k}, sub[1].last) /\ sub[1].last # k
    /\ Sub_recv(1)

Test_Stop == TestAt({"Reset"}, "Reset") /\ Subscription_Stop(1)

Test_cancel == sub[1].stopped /\ Cancel_emit

RunTest(p) ==
    \/ State_tripped(p)
    \/ State_broken(p)
    \/ State_last(p)
    \/ State_gate(p)
    \/ Ready_clear(p)
    \/ Reset_broken(p)
    \/ Reset_tripped(p)
    \/ Reset_gate(p)
    \/ RC_consec(p)
    \/ RC_window(p)
    \/ Trip_tripped(p)
    \/ Trip_last(p)
    \/ Emitter_defer(p)
    \/ Return(p)

TestStep ==
    \/ Test_Subscribe
    \/ Test_Trip
    \/ Test_Add
    \/ Test_Ready
    \/ Test_Reset
    \/ Test_read
    \/ Test_Stop
    \/ Test_cancel
    \/ RunTest(Caller)

NextTest == TestStep \/ EmitStep

\* the goroutine of the test and the goroutine of Emit both go on whenever
\* they can
FairTest == WF_vars(TestStep) /\ WF_vars(EmitStep)

SpecTest == InitEm /\ [][NextTest]_vars /\ FairTest

\* a breaker that publishes by itself, with its listeners added: callers
\* whose Reset() or fail() come to sendEvent, callers of RemoveListener, and
\* the owners of the listener channels
InitListen ==
    /\ InitBreaker({<<1>>}, {NilTripper}, FALSE, NotFollowed)
    /\ ls = ListenersOf(NumListeners, FALSE)

PublishStep(p) ==
    \/ se_range(p)
    \/ se_load(p)
    \/ se_select(p)
    \/ se_evict(p)
    \/ se_put(p)

RemoveStep(p) ==
    \/ rm_scan(p)
    \/ rm_shift(p)
    \/ rm_store(p)

NextListen ==
    \/ \E p \in Procs : Publish(p)
    \/ \E p \in Procs : PublishStep(p)
    \/ \E p \in Procs : \E c \in Chans : RemoveListener(p, c)
    \/ \E p \in Procs : RemoveStep(p)
    \/ \E p \in Procs : Return(p)
    \/ \E c \in Chans : Listener_read(c)

SpecListen == InitListen /\ [][NextListen]_vars

GoStep ==
    \/ go_park
    \/ \E p \in Procs : go_take(p)
    \/ go_select
    \/ go_evict
    \/ go_put
    \/ go_done

\* a breaker that publishes by itself, after one Subscribe: callers whose
\* Reset() or fail() come to sendEvent, the goroutine of Subscribe, the
\* cancellation of its context and the subscriber.  The code that publishes
\* and the goroutine go on when they can; nothing makes the subscriber
\* read.
InitSubscribe ==
    /\ InitBreaker({<<1>>}, {NilTripper}, FALSE, NotFollowed)
    /\ ls = ListenersOf(0, TRUE)

NextSubscribe ==
    \/ \E p \in Procs : Publish(p)
    \/ \E p \in Procs : se_recv(p)
    \/ \E p \in Procs : se_range(p)
    \/ \E p \in Procs : Return(p)
    \/ GoStep
    \/ Cancel_go
    \/ Output_read

FairSubscribe ==
    /\ \A p \in Procs : WF_vars(se_recv(p) \/ se_range(p) \/ Return(p))
    /\ WF_vars(GoStep)

SpecSubscribe == InitSubscribe /\ [][NextSubscribe]_vars /\ FairSubscribe

\* a tripped breaker under a policy that never stops: callers that keep
\* invoking Call, monitors that poll State(), and Trip(); every operation
\* that has started goes on, and the clock advances up to its horizon
InitLive == InitWith({<<1>>}, {NilTripper}, FALSE, NotFollowed)

LiveOps == {"Call", "State", "Trip"}

RunLive(p) == RunCall(p)

NextLive ==
    \/ Tick
    \/ \E p \in Procs : \E o \in LiveOps : InvokeOp(p, o)
    \/ \E p \in Procs : RunLive(p)

FairLive ==
    /\ WF_vars(Tick)
    /\ \A p \in Procs :
          /\ WF_vars(RunLive(p))
          /\ SF_vars(InvokeOp(p, "Call"))

SpecLive == InitLive /\ [][NextLive]_vars /\ FairLive

\* a client made by NewClient over one breaker as in TestTreshold, whose
\* caller asks for URLs with and without a breaker, by every verb
InitHttp == InitWith({<<1>>}, {ThresholdTripper(1)}, FALSE, NotFollowed)

RunHttp(p) ==
    \/ State_tripped(p)
    \/ State_broken(p)
    \/ State_last(p)
    \/ State_gate(p)
    \/ Ready_clear(p)
    \/ success_lock(p)
    \/ Reset_broken(p)
    \/ Reset_tripped(p)
    \/ Reset_gate(p)
    \/ RC_consec(p)
    \/ RC_window(p)
    \/ success_consec(p)
    \/ success_window(p)
    \/ fail_count(p)
    \/ fail_consec(p)
    \/ fail_last(p)
    \/ fail_tripper(p)
    \/ Trip_tripped(p)
    \/ Trip_last(p)

NextHttp ==
    \/ (\A q \in Procs : pc[q] = "idle") /\ Tick
    \/ \E b \in BOOLEAN : NewClient(b)
    \/ \E v \in Verbs, u \in Urls : Client_verb(Caller, v, u)
    \/ Client_Call(Caller)
    \/ RunHttp(Caller)
    \/ Ctx_Execute(Caller)
    \/ Client_return(Caller)
    \/ Client_done(Caller)
    \/ Client_forward(Caller)

SpecHttp == InitHttp /\ [][NextHttp]_vars

\* ---------------------------------------------------------------- claims
StatePcs == {"State_tripped", "State_broken", "State_last", "State_gate"}

\* the positions of a Call between the return of its Ready() and the end of
\* its success or failure handler
HandlerPcs ==
    {"Call_exec", "success_lock", "Reset_broken", "Reset_tripped",
     "Reset_gate", "RC_consec", "RC_window", "success_consec",
     "success_window", "fail_count", "fail_consec", "fail_last",
     "fail_tripper", "Trip_tripped", "Trip_last"}

ProbeInFlight(p) ==
    op[p] = "Call" /\ st[p] = "Halfopen" /\ pc[p] \in HandlerPcs

\* a >= b for scheduled intervals, Stop being the longest wait
IntervalGE(a, b) == a = Stop \/ (b # Stop /\ a >= b)

\* C1: a Call whose readiness check reports Open returns ErrBreakerOpen
\* without running the operation (the circuit only runs after Closed or
\* Halfopen), and no step of the rejected readiness check changes a field of
\* the breaker.
C1_FailFast ==
    /\ [](\A p \in Procs :
            pc[p] = "Call_exec" => st[p] \in {"Closed", "Halfopen"})
    /\ [][\A p \in Procs :
            (op[p] = "Call" /\ pc[p] \in StatePcs /\ pc'[p] # pc[p]
               /\ st'[p] \in {"none", "Open"})
            => /\ UNCHANGED fields
               /\ st'[p] = "Open" =>
                     pc'[p] = "ret" /\ err'[p] = "ErrBreakerOpen"]_vars

\* a Call was rejected while the trial gate was held by somebody else
C1_Witness ==
    \E p \in Procs :
        /\ pc[p] = "ret" /\ op[p] = "Call" /\ err[p] = "ErrBreakerOpen"
        /\ tripped = 1 /\ broken = 0 /\ halfOpens = 1

\* C2: while one caller's Halfopen probe is in flight (its Ready() has
\* returned Halfopen and its handler has not finished), no other caller's
\* State() returns Halfopen.
C2_OneProbe ==
    [][\A q \in Procs :
          (pc[q] = "State_gate" /\ st'[q] = "Halfopen")
          => \A p \in Procs \ {q} : ~ProbeInFlight(p)]_vars

\* C3: when two or more callers invoke Ready() at one clock instant on a
\* tripped, not broken breaker whose backoff interval has elapsed, exactly
\* one of them gets Halfopen and the others get Open.
C3_GateRace ==
    LET R == {p \in Procs : race[p]}
    IN  (Cardinality(R) >= 2 /\ \A p \in R : pc[p] = "ret")
        => /\ Cardinality({p \in R : st[p] = "Halfopen"}) = 1
           /\ \A p \in R : st[p] \in {"Halfopen", "Open"}

\* C4: no step of State() changes a field of the breaker.
C4_StatePure ==
    [][\A p \in Procs :
          (op[p] = "State" /\ pc[p] \in StatePcs /\ pc'[p] # pc[p])
          => UNCHANGED fields]_vars

\* C5: after Trip() at time t with scheduled interval I, a Ready() at a time
\* <= t + I returns Open and the first Ready() at a time > t + I returns
\* Halfopen.
C5_RecoveryTiming ==
    [][\A p \in Procs :
          (op[p] = "Ready" /\ pc[p] = "State_gate" /\ pc'[p] # pc[p]
             /\ tripFresh /\ nextBackOff # Stop)
          => LET t == lastFailure * Second + lastFrac
             IN  /\ now <= t + nextBackOff => st'[p] = "Open"
                 /\ now > t + nextBackOff => st'[p] = "Halfopen"]_vars

\* C6: when a Call that was admitted Halfopen returns nil, the breaker is
\* not tripped, State() is Closed (so the next Call is admitted), Failures()
\* and ConsecFailures() are 0, the gate is clear and the scheduled interval
\* is the first interval of the policy.
C6_ProbeSuccessResets ==
    \A p \in Procs :
        (pc[p] = "ret" /\ op[p] = "Call" /\ st[p] = "Halfopen"
           /\ err[p] = "nil")
        => /\ tripped = 0
           /\ StateNow = "Closed"
           /\ Window_Failures(counts) = 0
           /\ consecFailures = 0
           /\ halfOpens = 0
           /\ nextBackOff = backoff.sched[1]

\* a probe succeeded after the schedule had advanced past its first interval
C6_Witness ==
    \E p \in Procs :
        /\ pc[p] = "ret" /\ op[p] = "Call" /\ st[p] = "Halfopen"
        /\ err[p] = "nil"
        /\ Len(backoff.sched) > 1
        /\ Window_Successes(counts) = 1

\* C7: when a Call that was admitted Halfopen fails, the breaker is tripped
\* and State() is Open right after it, the interval scheduled at admission is
\* not shorter than the one before it, and the failure handler leaves the
\* scheduled interval alone.
C7_ProbeFailureStaysOpen ==
    /\ [](\A p \in Procs :
            (pc[p] = "ret" /\ op[p] = "Call" /\ st[p] = "Halfopen"
               /\ err[p] \notin {"nil", "none"})
            => tripped = 1 /\ StateNow = "Open")
    /\ [][\A p \in Procs :
            (op[p] = "Call" /\ pc[p] = "State_gate" /\ st'[p] = "Halfopen")
            => IntervalGE(nextBackOff', nextBackOff)]_vars
    /\ [][\A p \in Procs :
            (ProbeInFlight(p) /\ pc'[p] # pc[p] /\ err'[p] # "nil")
            => nextBackOff' = nextBackOff]_vars

\* C8: once Break() has returned and until Reset() is invoked, State() is
\* Open.
C8_ManualBreak == breakHeld => StateNow = "Open"

\* C9: when Reset() returns with no concurrent operation, the tripped flag,
\* the broken flag and the gate are clear, the consecutive-failure counter
\* and every bucket are zero, and State() is Closed.
C9_ResetClears ==
    \A p \in Procs :
        (pc[p] = "ret" /\ op[p] = "Reset")
        => /\ tripped = 0 /\ broken = 0 /\ halfOpens = 0
           /\ consecFailures = 0
           /\ \A i \in 0..(WindowBuckets - 1) : counts.buckets[i] = Bucket0
           /\ Window_Failures(counts) = 0
           /\ Window_Successes(counts) = 0
           /\ StateNow = "Closed"

\* Reset() has returned on a breaker whose backoff schedule had advanced: a
\* probe had been admitted before
C9_Witness ==
    \E p \in Procs :
        /\ pc[p] = "ret" /\ op[p] = "Reset"
        /\ backoff.pos > 1

\* C10: when Reset() returns, the scheduled backoff interval is the first
\* interval of the policy, so that a Trip() that follows makes the probe
\* eligible after that interval.
C10_ResetBackoff ==
    \A p \in Procs :
        (pc[p] = "ret" /\ op[p] = "Reset")
        => nextBackOff = backoff.sched[1] /\ backoff.pos = 1

\* the span of the window, and no operation in progress
WindowTime == WindowBuckets * BucketTime
Quiet == \A p \in Procs : pc[p] \in {"idle", "ret"}

\* C11 as stated: with ThresholdTripper(N) on a fresh breaker, after failing
\* calls that all fall within one window span the breaker is tripped exactly
\* if N or more of them were made; after a Reset() Failures() is 0 and the
\* breaker is not tripped.
C11_ThresholdWithinWindow ==
    /\ (Quiet /\ tally.ok /\ tripper.kind = "Threshold" /\ tally.succs = 0
          /\ tally.last - tally.first < WindowTime)
       => (tripped = 1 <=> tally.fails >= tripper.threshold)
    /\ \A p \in Procs :
          (pc[p] = "ret" /\ op[p] = "Reset" /\ tripper.kind = "Threshold")
          => Window_Failures(counts) = 0 /\ tripped = 0

\* C11 amended: the same for failing calls that all fall within less than
\* the window span minus one bucket interval, the granularity of the
\* window.
C11_ThresholdWithinGranularity ==
    /\ (Quiet /\ tally.ok /\ tripper.kind = "Threshold" /\ tally.succs = 0
          /\ tally.last - tally.first < WindowTime - BucketTime)
       => (tripped = 1 <=> tally.fails >= tripper.threshold)
    /\ \A p \in Procs :
          (pc[p] = "ret" /\ op[p] = "Reset" /\ tripper.kind = "Threshold")
          => Window_Failures(counts) = 0 /\ tripped = 0

\* ThresholdTripper(2) has tripped at the second of two failures made at
\* different times
C11_Witness ==
    /\ Quiet /\ tally.ok /\ tripper = ThresholdTripper(2)
    /\ tally.succs = 0 /\ tally.fails = 2
    /\ tally.last - tally.first = 1
    /\ tripped = 1

\* C12: after a Call returns nil the consecutive-failure counter is 0; on a
\* fresh breaker the counter is the number of failures since the last
\* success, and with ConsecutiveTripper(N) the breaker is tripped exactly if
\* that number is N or more.
C12_ConsecutiveRun ==
    /\ \A p \in Procs :
          (pc[p] = "ret" /\ op[p] = "Call" /\ err[p] = "nil")
          => consecFailures = 0
    /\ (Quiet /\ tally.ok) => consecFailures = tally.run
    /\ (Quiet /\ tally.ok /\ tripper.kind = "Consecutive")
       => (tripped = 1 <=> tally.run >= tripper.threshold)

\* failure, success, failure under ConsecutiveTripper(2): two failures in
\* all, not tripped
C12_Witness ==
    /\ Quiet /\ tally.ok /\ tripper = ConsecutiveTripper(2)
    /\ tally.fails = 2 /\ tally.succs = 1 /\ tally.run = 1
    /\ tripped = 0

\* the condition of RateTripper on the samples made
RateMet(tl, tr) ==
    /\ tl.fails + tl.succs >= tr.threshold
    /\ tl.fails * tr.den >= tr.num * (tl.fails + tl.succs)

\* C13 as stated: with RateTripper(rate, minSamples) on a fresh breaker,
\* after calls that all fall within one window span the breaker is tripped
\* exactly if the last call failed with failures + successes >= minSamples
\* and failures / (failures + successes) >= rate, and is Closed otherwise.
C13_RateWithinWindow ==
    (Quiet /\ tally.ok /\ tripper.kind = "Rate"
       /\ tally.last - tally.first < WindowTime)
    => /\ tripped = 1 <=> (tally.run >= 1 /\ RateMet(tally, tripper))
       /\ tripped = 0 => StateNow = "Closed"

\* C13 amended: the same for calls that all fall within less than the window
\* span minus one bucket interval.
C13_RateWithinGranularity ==
    (Quiet /\ tally.ok /\ tripper.kind = "Rate"
       /\ tally.last - tally.first < WindowTime - BucketTime)
    => /\ tripped = 1 <=> (tally.run >= 1 /\ RateMet(tally, tripper))
       /\ tripped = 0 => StateNow = "Closed"

\* a success and then a failure at another time: two samples, rate 1/2,
\* tripped
C13_Witness ==
    /\ Quiet /\ tally.ok /\ tripper = RateTripper(1, 2, 2)
    /\ tally.succs = 1 /\ tally.fails = 1
    /\ tally.last - tally.first = 1
    /\ tripped = 1

\* C14: with a backoff policy that always reports Stop, a Call or Ready()
\* made while the breaker is tripped gets Open, the Call returning
\* ErrBreakerOpen without running the circuit, whatever the clock says; the
\* breaker stays tripped until Reset() is invoked.
C14_StopNeverRetries ==
    /\ [](\A p \in Procs :
            (backoff.sched = <<Stop>> /\ tripped = 1)
            => pc[p] \notin {"Call_exec", "Ready_clear"})
    /\ [][\A p \in Procs :
            (backoff.sched = <<Stop>> /\ tripped = 1
               /\ op[p] \in {"Call", "Ready"} /\ pc[p] \in StatePcs
               /\ st'[p] # "none")
            => /\ st'[p] = "Open" /\ pc'[p] = "ret"
               /\ op[p] = "Call" => err'[p] = "ErrBreakerOpen"]_vars
    /\ [][(backoff.sched = <<Stop>> /\ tripped = 1 /\ tripped' = 0)
            => \E p \in Procs : op[p] = "Reset"]_vars

\* under the policy that always stops a Call was rejected with the clock at
\* its horizon, five ticks after the trip
C14_Witness ==
    \E p \in Procs :
        /\ pc[p] = "ret" /\ op[p] = "Call" /\ err[p] = "ErrBreakerOpen"
        /\ backoff.sched = <<Stop>> /\ broken = 0
        /\ lastFailure = 0 /\ now = MaxTimeSeq

\* C15: when the last sample was recorded more than the window span ago and
\* nothing but Call() was invoked since, Failures() and Successes() return 0
\* and ErrorRate() returns 0.0.
C15_ExpiryOnRead ==
    (Quiet /\ tally.ok /\ tally.last >= 0 /\ now - tally.last > WindowTime)
    => /\ Window_Failures(counts) = 0
       /\ Window_Successes(counts) = 0
       /\ ErrorRate(counts)[1] = 0

\* C16: ErrorRate() is 0.0 when the buckets hold no sample; otherwise it is
\* failures / (failures + successes) over all buckets; it is always a number
\* in [0, 1].
C16_ErrorRate ==
    LET r == ErrorRate(counts)
        f == Window_Failures(counts)
        t == f + Window_Successes(counts)
    IN  /\ r[2] > 0
        /\ t = 0 => r = <<0, 1>>
        /\ t > 0 => r[1] * t = f * r[2]
        /\ 0 <= r[1] /\ r[1] <= r[2]

\* a failure in one bucket and a success in the other: the rate is 1/2
C16_Witness ==
    /\ counts.buckets[0].failure + counts.buckets[0].success = 1
    /\ counts.buckets[1].failure + counts.buckets[1].success = 1
    /\ Window_Failures(counts) = 1
    /\ ErrorRate(counts) = <<1, 2>>

\* the positions of the failure handler
FailPcs == {"fail_count", "fail_consec", "fail_last", "fail_tripper"}

\* the steps of the failure handler of a Call whose error is e: the error is
\* kept, Failures() becomes before + 1, the counter gains one, the time is
\* stamped, the tripper decides on Trip()
FailRuns(e, before) ==
    \A p \in Procs :
        (op[p] = "Call" /\ err[p] = e /\ pc[p] \in FailPcs /\ pc'[p] # pc[p])
        => /\ err'[p] = e
           /\ pc[p] = "fail_count" =>
                 /\ Window_Failures(counts') = before + 1
                 /\ pc'[p] = "fail_consec"
           /\ pc[p] = "fail_consec" =>
                 /\ consecFailures' = consecFailures + 1
                 /\ pc'[p] = "fail_last"
           /\ pc[p] = "fail_last" =>
                 /\ lastFailure' = now \div Second
                 /\ pc'[p] = "fail_tripper"
           /\ pc[p] = "fail_tripper" =>
                 pc'[p] = IF TripFunc_Trip(tripper, counts, consecFailures)
                          THEN "Trip_tripped" ELSE "ret"

\* a Call returns e after its failure handler has run
FailReturned(e) ==
    \A p \in Procs :
        (pc[p] = "ret" /\ op[p] = "Call" /\ err[p] = e)
        => /\ consecFailures >= 1
           /\ Window_Failures(counts) >= 1
           /\ lastFailure = now \div Second
           /\ TripFunc_Trip(tripper, counts, consecFailures) => tripped = 1

\* Failures() as it is, and as it is once the expired buckets are dropped
FailuresNow(w) == Window_Failures(w)
FailuresKept(w) == Window_Failures(getLatestBucket(w, now))

C18_TimeoutCounted ==
    /\ [][\A p \in Procs :
            (pc[p] = "Call_exec" /\ err'[p] = "ErrBreakerTimeout")
            => pc'[p] = "fail_count" /\ late' = late + 1]_vars
    /\ [][FailRuns("ErrBreakerTimeout", FailuresKept(counts))]_vars
    /\ []FailReturned("ErrBreakerTimeout")
    /\ [][late' < late => UNCHANGED <<fields, locals>>]_vars

\* a Call has returned ErrBreakerTimeout and tripped the breaker, and its
\* circuit has ended in the meantime
C18_Witness ==
    \E p \in Procs :
        /\ pc[p] = "ret" /\ op[p] = "Call" /\ err[p] = "ErrBreakerTimeout"
        /\ late = 0
        /\ tripper = ThresholdTripper(1) /\ tripped = 1

\* the innermost error of a chain
Innermost(e) == IF e = <<>> THEN "nil" ELSE e[Len(e)]

\* C19: IsOpen and IsTimeout return on every error value: each pass through
\* the loop that does not return takes the cause of the error, so there are
\* no more passes than errors in the chain; IsOpen returns true exactly for
\* a chain that ends in the breaker-open error, IsTimeout exactly for one
\* that ends in the breaker-timeout error.
C19_Predicates ==
    \A p \in Procs :
        op[p] \in PredOps
        => /\ pred[p].n <= Len(pred[p].e)
           /\ pc[p] = "ret" =>
                 pred[p].v =
                    IF Innermost(pred[p].e) =
                          (IF op[p] = "IsOpen" THEN "open" ELSE "timeout")
                    THEN "true" ELSE "false"

\* the time since lastFailure, as State() computes it, exceeds the interval
TimeEligible == Eligible(nextBackOff, now - lastFailure * Second)

\* a Call has been admitted Halfopen and is about to run its circuit
ProbeAdmitted ==
    \E p \in Procs :
        /\ op[p] = "Call" /\ st[p] = "Halfopen"
        /\ pc[p] \in {"Ready_clear", "Call_exec"}

\* the caps of the model allow no further Call
CapReached ==
    \/ consecFailures >= MaxConsec
    \/ Window_Failures(counts) + Window_Successes(counts) >= SampleCap

\* C20: whenever the breaker is tripped and not broken and the interval has
\* elapsed, a Call is eventually admitted as a probe, unless the breaker is
\* reset or broken or the failure time is stamped again before.
C20_EventualProbe ==
    (tripped = 1 /\ broken = 0 /\ TimeEligible)
    ~> (ProbeAdmitted \/ tripped = 0 \/ broken = 1 \/ ~TimeEligible
          \/ CapReached)

\* an operation called on the eventEmitter is about to return to its caller
Forwarded(p) == pc[p] = "ret" /\ via[p].w /\ ~via[p].on

\* the Call of p has gone through the failure handler
Failed(p) == op[p] = "Call" /\ err[p] \in {"opErr", "ErrBreakerTimeout"}

\* C21: when Trip(), Break(), or a Call whose failure made the tripper open
\* the breaker returns from the eventEmitter, the eventEmitter has published
\* a Tripped event.
C21_TrippedPublished ==
    \A p \in Procs :
        (/\ Forwarded(p)
         /\ \/ op[p] \in {"Trip", "Break"}
            \/ Failed(p) /\ TripFunc_Trip(tripper, counts, consecFailures))
        => "Tripped" \in via[p].sent

\* C22: when a Call whose circuit returned an error or timed out returns
\* from the eventEmitter, the eventEmitter has published a Failed event.
C22_FailedPublished ==
    \A p \in Procs : (Forwarded(p) /\ Failed(p)) => "Fail" \in via[p].sent

\* C23: when Ready() that returns Halfopen, or a Call admitted as the
\* Halfopen probe, returns from the eventEmitter, the eventEmitter has
\* published a Ready event.
C23_ReadyPublished ==
    \A p \in Procs :
        (Forwarded(p) /\ op[p] \in {"Ready", "Call"} /\ st[p] = "Halfopen")
        => "Ready" \in via[p].sent

\* C30: the eventEmitter forwards every operation unchanged: what it does
\* after the breaker's operation has returned changes no field of the
\* breaker and nothing of what the operation returned, and no step of the
\* Emit task changes a field of the breaker or a local of a caller.
C30_ForwardsUnchanged ==
    /\ [][\A p \in Procs :
            (via[p].on /\ ~via'[p].on)
            => UNCHANGED <<now, fields, pc, op, st, err>>]_vars
    /\ [][(em' # em) => UNCHANGED <<now, fields, locals>>]_vars

\* a Call made on the eventEmitter returns the error of its circuit, with
\* the breaker tripped by it, while the Emit task holds an event
C30_Witness ==
    \E p \in Procs :
        /\ Forwarded(p) /\ op[p] = "Call" /\ err[p] = "opErr"
        /\ tripped = 1 /\ Window_Failures(counts) = 1
        /\ em.task = "have"

\* C25: publishing never blocks a state transition: a Reset() or a failure
\* handler that has come to publish its event returns, whatever the
\* subscriber does (not reading, reading late, or having cancelled its
\* context).
C25_NeverBlocks ==
    \A p \in Procs : (op[p] = "sendEvent") ~> (pc[p] = "ret")

\* C24: in TestBreakerEvents, with Emit started and one subscriber that
\* reads its channel after each operation, Trip(), Ready() returning
\* Halfopen and Reset() on the eventEmitter make the subscriber receive
\* Tripped, Ready and Reset in the end, for every scheduling of the test and
\* of the Emit task.
C24_TestDelivers == <>(sub[1].last = "Reset")

\* C26: a subscription stops when the context passed to Subscribe is
\* cancelled: once its goroutine has returned on ctx.Done(), the subscription
\* is out of the set of receivers, so that no sendEvent is at a send on its
\* channel.
C26_CancelStops ==
    ls.go.pc = "done" => \A p \in Procs : pc[p] # "se_recv"

\* C28: the fan-out task terminates when its context is cancelled: once the
\* context passed to Emit is done, Emit returns, whether or not events keep
\* being published and whatever the subscribers do; and it takes no event
\* in between.
C28_EmitTerminates ==
    /\ (em.ctx /\ em.task # "off") ~> (em.task = "done")
    /\ [][em.ctx => ~(em.task = "select" /\ em'.task = "have")]_vars

\* Emit has returned on its cancelled context, in the middle of the
\* publications of a caller, after it had delivered an event
C28_Witness ==
    /\ em.ctx /\ em.task = "done"
    /\ pc[Caller] = "ret" /\ via[Caller].on
    /\ \E s \in Subs : sub[s].last # "none" /\ sub[s].pc = "recv"

\* C27: no event published after RemoveListener has returned true for a
\* listener is ever put in the channel of that listener.
C27_NoDeliveryAfterStop ==
    \A c \in Chans :
        \A k \in 1..Len(ls.buf[c]) : c \notin ls.buf[c][k].after

\* C29: evict-oldest: the channel of a listener never holds more than its
\* capacity; a publisher that finds it full discards the oldest queued event
\* and enqueues its own without waiting, also when the subscriber drains the
\* channel meanwhile; after the publish its event is the newest in the
\* channel.
C29_EvictOldest ==
    /\ [](\A c \in Chans : Len(ls.buf[c]) <= ListenerCap)
    /\ [](\A p \in Procs :
            /\ pc[p] = "se_evict" => ls.buf[ls.loc[p].c] # <<>>
            /\ pc[p] = "se_put" => Room(ls.loc[p].c))
    /\ [][\A p \in Procs :
            (pc[p] \in {"se_select", "se_put"} /\ ls'.loc[p].i > ls.loc[p].i)
            => LET b == ls'.buf[ls.loc[p].c]
               IN  b # <<>> /\ b[Len(b)] = ls.loc[p].ev]_vars

\* C31: the success handler records a success in the window only when the
\* state its Call observed is not Halfopen; a success admitted Halfopen does
\* the full Reset() instead, so that when such a Call returns the window holds
\* no sample: Successes() = 0 and Failures() = 0.
C31_ProbeSuccessNotRecorded ==
    /\ [][\A p \in Procs :
            (pc[p] = "success_window" /\ pc'[p] = "ret"
               /\ Window_Successes(counts') # Window_Successes(counts))
            => st[p] # "Halfopen"]_vars
    /\ [](\A p \in Procs :
            (pc[p] = "ret" /\ op[p] = "Call" /\ st[p] = "Halfopen"
               /\ err[p] = "nil")
            => /\ Window_Successes(counts) = 0
               /\ Window_Failures(counts) = 0)

\* C32: Failures() and Successes() never count an event that was recorded
\* more than the span of the window plus one bucket interval before the
\* query: when the last event was recorded that long ago, both return 0.
C32_StalenessBound ==
    (Quiet /\ tally.ok /\ tally.last >= 0
       /\ now - tally.last > WindowTime + BucketTime)
    => /\ Window_Failures(counts) = 0
       /\ Window_Successes(counts) = 0

\* C33 as stated: with ThresholdTripper(N) on a Closed breaker, when N
\* failing Calls have run concurrently within one window span and all have
\* returned, with no Reset in between, the breaker is tripped, for every
\* interleaving of their failure handlers.
C33_ConcurrentFailuresTrip ==
    (Quiet /\ tally.ok /\ tally.succs = 0
       /\ tally.fails = tripper.threshold
       /\ now - tally.first < WindowTime)
    => tripped = 1

\* C33 amended: the same for N failing Calls that have run and returned
\* within less than the window span minus one bucket interval, the
\* granularity of the window.
C33_ConcurrentFailuresKept ==
    (Quiet /\ tally.ok /\ tally.succs = 0
       /\ tally.fails = tripper.threshold
       /\ now - tally.first < WindowTime - BucketTime)
    => tripped = 1

\* two Calls that ran at the same time have both returned the error of
\* their circuit, one tick after the first circuit ended, and the breaker is
\* tripped
C33_Witness ==
    /\ \E p, q \in Procs :
          /\ p # q
          /\ pc[p] = "ret" /\ op[p] = "Call" /\ err[p] = "opErr"
          /\ pc[q] = "ret" /\ op[q] = "Call" /\ err[q] = "opErr"
    /\ Quiet /\ tally.ok /\ tally.succs = 0 /\ tally.fails = 2
    /\ now - tally.first = 1
    /\ tripped = 1

\* C34: Break() and Reset() are atomic with respect to each other: when
\* Break() and Reset() have run concurrently and both have returned, the
\* flags are those of one of the sequential orders, tripped and broken both
\* set or both clear, never tripped without broken.
C34_BreakResetAtomic ==
    Quiet => (tripped = 1 <=> broken = 1)

\* C35 as stated: while the breaker stays tripped the scheduled backoff
\* interval never decreases, except through the success of a Halfopen probe:
\* a successful Call that was admitted Closed and ends after the breaker has
\* tripped does not shorten the wait before the next probe.
C35_BackoffNeverShortened ==
    [][(tripped = 1 /\ tripped' = 1)
       => \/ IntervalGE(nextBackOff', nextBackOff)
          \/ \E p \in Procs :
                /\ pc[p] = "success_lock" /\ pc'[p] # "success_lock"
                /\ st[p] = "Halfopen"]_vars

\* C35 amended: while the breaker stays tripped the scheduled backoff
\* interval decreases only through the success handler of a Call, and every
\* success handler puts it back to the first interval of the policy, for a
\* Call admitted Halfopen and for a Call admitted Closed alike.
C35_BackoffOnlySuccessResets ==
    /\ [][(tripped = 1 /\ tripped' = 1)
          => \/ IntervalGE(nextBackOff', nextBackOff)
             \/ \E p \in Procs :
                   pc[p] = "success_lock" /\ pc'[p] # "success_lock"]_vars
    /\ [][\A p \in Procs :
            (pc[p] = "success_lock" /\ pc'[p] # "success_lock")
            => nextBackOff' = backoff.sched[1]]_vars

\* the success handler of a Call admitted Closed has put the interval back
\* to the first one on a tripped breaker, after the admission of a probe,
\* still in flight, had advanced it
C35_Witness ==
    \E p, q \in Procs :
        /\ pc[p] = "success_consec" /\ st[p] = "Closed"
        /\ pc[q] = "Call_exec" /\ st[q] = "Halfopen"
        /\ tripped = 1
        /\ nextBackOff = backoff.sched[1]
        /\ backoff.sched[2] > backoff.sched[1]

\* C36: every admitted Call runs exactly one of the success handler and the
\* failure handler, once, with or without a timeout and whatever the order
\* of the end of the circuit and of the alarm: the Call leaves the circuit
\* for the success handler when it got nil and for the failure handler when
\* it got an error or the alarm, a handler is only ever entered from there,
\* the circuit is only ever entered by a Call that Ready() admitted and that
\* is in no handler yet, and the late end of a circuit runs nothing.  A
\* rejected Call returns at once and runs neither.
C36_OneHandlerPerCall ==
    /\ [][\A p \in Procs :
            (pc[p] = "Call_exec" /\ pc'[p] # "Call_exec")
            => \/ err'[p] = "nil" /\ pc'[p] = "success_lock"
               \/ /\ err'[p] \in {"opErr", "ErrBreakerTimeout"}
                  /\ pc'[p] = "fail_count"]_vars
    /\ [][\A p \in Procs :
            (pc'[p] \in {"success_lock", "fail_count"} /\ pc[p] # pc'[p])
            => pc[p] = "Call_exec"]_vars
    /\ [][\A p \in Procs :
            (pc'[p] = "Call_exec" /\ pc[p] # "Call_exec")
            => /\ pc[p] \notin HandlerPcs
               /\ op[p] = "Call"
               /\ st'[p] \in {"Closed", "Halfopen"}]_vars
    /\ [](\A p \in Procs :
            (op[p] = "Call" /\ st[p] = "Open")
            => pc[p] = "ret" /\ err[p] = "ErrBreakerOpen")
    /\ [][late' < late => UNCHANGED <<fields, locals>>]_vars

\* a Call whose alarm won is in its failure handler while its circuit is
\* still running, on a breaker that an earlier Call had left with a success
C36_Witness ==
    \E p \in Procs :
        /\ pc[p] = "fail_tripper" /\ op[p] = "Call"
        /\ err[p] = "ErrBreakerTimeout"
        /\ late = 1
        /\ Window_Successes(counts) = 1 /\ Window_Failures(counts) = 1

\* C37: a helper goroutine of a Call with a timeout ends once its operation
\* returns: while helpers are left over from Calls whose alarm won, one of
\* them ends again and again, until none is left; none stays blocked on c
C37_HelperTerminates == []<><<late' < late>>_vars \/ <>[](late = 0)

\* the alarm won, the Call has returned to its caller and the helper is
\* still there
C37_Witness ==
    /\ late = 1
    /\ pc[Caller] = "idle"
    /\ InCallTimedOut = {}
    /\ tally # <<>>

\* a reader of subscription s takes an event from s.C in this step
Delivered(s) == sub[s].pc = "recv" /\ sub'[s].pc = "away"

\* C38: every subscriber gets the events in the order in which e.events
\* accepted them, each at most once: Emit holds one accepted event at a
\* time and keeps it until its fan-out is over, a delivery hands over the
\* event in hand, to a subscriber the fan-out has not served yet and
\* serves with it, and a subscriber comes onto the list of a fan-out only
\* with a newly accepted event
C38_InOrderNoDuplicate ==
    [][/\ \A s \in Subs :
             Delivered(s) =>
                 /\ em.task = "locked"
                 /\ em.ev # "none"
                 /\ em'.ev = em.ev
                 /\ sub'[s].last = em.ev
                 /\ s \in em.todo
                 /\ s \notin em'.todo
             \* what a subscriber holds changes by a delivery only
       /\ \A s \in Subs : sub'[s].last # sub[s].last => Delivered(s)
       /\ (em.task \in {"have", "locked"} /\ em'.ev # em.ev) =>
              /\ em.task = "locked"
              /\ em.todo = {}
              /\ em'.task = "run"
       /\ (em'.task = "have" /\ em.task # "have") =>
              /\ em.task = "select"
              /\ em'.ev # "none"
       /\ ~(em'.todo \subseteq em.todo) =>
              /\ em.task = "have"
              /\ em'.task = "locked"
              /\ em'.ev = em.ev
      ]_vars

\* the fan-out of a Reset event has served one subscriber, and another
\* one, who holds the Tripped event accepted before, is still to be served
C38_Witness ==
    /\ em.task = "locked"
    /\ em.ev = "Reset"
    /\ \E s, t \in Subs :
          /\ s # t
          /\ s \in em.subs \ em.todo
          /\ sub[s].last = "Reset"
          /\ sub[s].pc = "away"
          /\ t \in em.todo
          /\ sub[t].last = "Tripped"

\* what the claim expects of Execute() when the client has returned o
Expected(o, bad) ==
    IF o.err # "nil" THEN o.err
    ELSE IF bad /\ o.resp >= 500 THEN "ErrBadStatus" ELSE "nil"

\* C39: for every outcome of the underlying client and both values of
\* ErrorOnBadStatus the protected Execute() returns, without crashing, the
\* client's error if there is one, the bad-status error if ErrorOnBadStatus
\* is set and the status is 500 or more, nil otherwise; and a non-nil result
\* goes to the failure handler
C39_OutcomeMapping ==
    /\ [](\A p \in Procs : pc[p] # "panic")
    /\ [][\A p \in Procs :
             (pc[p] = "Call_exec" /\ pc'[p] # "Call_exec") =>
                 /\ err'[p] = Expected(web'.out, web.errOnBadStatus)
                 /\ pc'[p] = IF err'[p] = "nil" THEN "success_lock"
                             ELSE "fail_count"]_vars

\* C40: when the lookup gives no breaker, the verb called on the underlying
\* client is the verb asked for, with the same arguments, and its result
\* is returned as it is
C40_PassThrough ==
    (web.state = "done" /\ ~BreakerLookup(web.args[1])) =>
        /\ web.call = [verb |-> web.verb, args |-> web.args]
        /\ web.res = web.out

====================================================================
